---- MODULE Spec2Model ----
(***************************************************************************)
(* A model of the Binary Ninja MCP plugin's embedded HTTP server:          *)
(*   plugin/server/http_server.py     MCPRequestHandler, MCPServer         *)
(*   plugin/core/binary_operations.py BinaryOperations                     *)
(*   plugin/api/endpoints.py          BinaryNinjaEndpoints                 *)
(*   plugins/.../utils/string_utils.py parse_int_or_default                *)
(*   plugin/__init__.py               BinaryNinjaMCP.start_server/stop     *)
(*                                                                         *)
(* Python strings are TLA+ strings, read character by character with       *)
(* SubSeq.  A Python value that may be a str, an int, a float or None is   *)
(* a tagged record (Str, Int, Float, None).  A Python call that may raise  *)
(* returns a record with an "exc" field.                                   *)
(***************************************************************************)
EXTENDS Integers, Sequences, FiniteSets, TLC

VARIABLES
    view,      \* BinaryOperations._current_view: the Program Handle (or NoView)
    serving,   \* MCPServer.thread is running serve_forever
    host,      \* where the host thread stands inside stop_server
    mutations, \* number of renames the Facade has taken so far (bounded)
    req,       \* the last request taken by the server thread
    checked,   \* the Program Handle _check_binary_loaded read for that request
    before,    \* the Program Handle its operations read
    resp       \* the response written for it

vars == <<view, serving, host, mutations, req, checked, before, resp>>

----------------------------------------------------------------------------
(* Bounds of the model.                                                    *)

\* how many functions the larger of the two binaries holds
NBig == 11
\* how many renames (of functions, of data) one behaviour performs
MaxMutations == 1

----------------------------------------------------------------------------
(* Python str primitives.                                                  *)

Char(s, i) == SubSeq(s, i, i)

Min(a, b) == IF a < b THEN a ELSE b
Max(a, b) == IF a > b THEN a ELSE b

\* str.startswith
StartsWith(s, p) == Len(s) >= Len(p) /\ SubSeq(s, 1, Len(p)) = p

\* the "in" operator on two strings
Contains(s, sub) ==
    \E i \in 1..(Len(s) - Len(sub) + 1) : SubSeq(s, i, i + Len(sub) - 1) = sub

UpperAlpha == "ABCDEFGHIJKLMNOPQRSTUVWXYZ"
LowerAlpha == "abcdefghijklmnopqrstuvwxyz"

LowerChar(c) ==
    IF \E i \in 1..26 : Char(UpperAlpha, i) = c
    THEN Char(LowerAlpha, CHOOSE i \in 1..26 : Char(UpperAlpha, i) = c)
    ELSE c

\* str.lower
RECURSIVE Lower(_)
Lower(s) ==
    IF s = "" THEN "" ELSE LowerChar(Char(s, 1)) \o Lower(SubSeq(s, 2, Len(s)))

IsSpace(c) == c \in {" ", "\t", "\n", "\r"}

RECURSIVE LStrip(_)
LStrip(s) ==
    IF s # "" /\ IsSpace(Char(s, 1)) THEN LStrip(SubSeq(s, 2, Len(s))) ELSE s

RECURSIVE RStrip(_)
RStrip(s) ==
    IF s # "" /\ IsSpace(Char(s, Len(s))) THEN RStrip(SubSeq(s, 1, Len(s) - 1)) ELSE s

\* str.strip
Strip(s) == RStrip(LStrip(s))

\* the value of a digit character, 99 for a character that is no hex digit
DigitVal(c) ==
    CASE c = "0" -> 0 [] c = "1" -> 1 [] c = "2" -> 2 [] c = "3" -> 3
      [] c = "4" -> 4 [] c = "5" -> 5 [] c = "6" -> 6 [] c = "7" -> 7
      [] c = "8" -> 8 [] c = "9" -> 9
      [] c \in {"a", "A"} -> 10 [] c \in {"b", "B"} -> 11
      [] c \in {"c", "C"} -> 12 [] c \in {"d", "D"} -> 13
      [] c \in {"e", "E"} -> 14 [] c \in {"f", "F"} -> 15
      [] OTHER -> 99

\* str.isdigit
IsDigitStr(s) == s # "" /\ \A i \in 1..Len(s) : DigitVal(Char(s, i)) < 10

\* the digits of an int literal once sign and base prefix are gone: not empty,
\* every character a digit of the base or a single "_" between two digits
\* ("_" may also follow the base prefix)
DigitsOk(d, base, afterPrefix) ==
    /\ d # ""
    /\ \A i \in 1..Len(d) :
          \/ DigitVal(Char(d, i)) < base
          \/ /\ Char(d, i) = "_"
             /\ i < Len(d)
             /\ DigitVal(Char(d, i + 1)) < base
             /\ \/ i > 1
                \/ afterPrefix

RECURSIVE DigitsVal(_, _, _)
DigitsVal(d, base, acc) ==
    IF d = "" THEN acc
    ELSE IF Char(d, 1) = "_" THEN DigitsVal(SubSeq(d, 2, Len(d)), base, acc)
    ELSE DigitsVal(SubSeq(d, 2, Len(d)), base, acc * base + DigitVal(Char(d, 1)))

\* the bound value handed to the rest of the computation: a local of the source
With(x, Rest(_)) == Rest(x)

\* int() on the digits d of a literal
PyDigits(d, base, afterPrefix, neg) ==
    IF DigitsOk(d, base, afterPrefix)
    THEN [ok |-> TRUE, n |-> IF neg THEN 0 - DigitsVal(d, base, 0) ELSE DigitsVal(d, base, 0)]
    ELSE [ok |-> FALSE, n |-> 0]

\* int() on a literal whose sign is gone: for base 16 a "0x"/"0X" prefix
PyUnsigned(u, base, neg) ==
    IF base = 16 /\ Len(u) >= 2 /\ Lower(SubSeq(u, 1, 2)) = "0x"
    THEN PyDigits(SubSeq(u, 3, Len(u)), base, TRUE, neg)
    ELSE PyDigits(u, base, FALSE, neg)

\* int() on a stripped literal: a sign
PySigned(t, base) ==
    IF t # "" /\ Char(t, 1) \in {"+", "-"}
    THEN PyUnsigned(SubSeq(t, 2, Len(t)), base, Char(t, 1) = "-")
    ELSE PyUnsigned(t, base, FALSE)

\* int(s, base) for base 10 and 16: surrounding whitespace, a sign, for base 16
\* a "0x"/"0X" prefix; ok = FALSE stands for ValueError
PyInt(s, base) == PySigned(Strip(s), base)

DecDigits == "0123456789"
HexDigits == "0123456789abcdef"

RECURSIVE Digits(_, _, _)
Digits(n, base, alphabet) ==
    IF n < base THEN Char(alphabet, n + 1)
    ELSE Digits(n \div base, base, alphabet) \o Char(alphabet, (n % base) + 1)

\* str(n) of an int
Dec(n) == IF n < 0 THEN "-" \o Digits(0 - n, 10, DecDigits) ELSE Digits(n, 10, DecDigits)

\* hex(n)
Hex(n) ==
    IF n < 0 THEN "-0x" \o Digits(0 - n, 16, HexDigits)
    ELSE "0x" \o Digits(n, 16, HexDigits)

----------------------------------------------------------------------------
(* Python values: str | int | float | None.                                *)

StrVal(s) == [t |-> "str", s |-> s, n |-> 0]
IntVal(n) == [t |-> "int", s |-> "", n |-> n]
\* a JSON number that is no int (1.5): neither str nor int, truthy
Float == [t |-> "float", s |-> "1.5", n |-> 0]
None == [t |-> "none", s |-> "None", n |-> 0]

\* bool(v)
Truthy(v) ==
    CASE v.t = "str" -> v.s # ""
      [] v.t = "int" -> v.n # 0
      [] v.t = "float" -> TRUE
      [] OTHER -> FALSE

\* str(v)
PyStr(v) == IF v.t = "int" THEN Dec(v.n) ELSE v.s

\* a or b
Or(a, b) == IF Truthy(a) THEN a ELSE b

\* exceptions: type = "" is "nothing raised"
NoExc == [type |-> "", msg |-> ""]
Raise(type, msg) == [type |-> type, msg |-> msg]
NoBinaryLoaded == Raise("RuntimeError", "No binary loaded")
\* the Facade's own failure, where the source anticipates one with an except clause
FacadeError == Raise("Exception", "facade failure")

----------------------------------------------------------------------------
(* The Facade: a BinaryView as the source reads it.                        *)

\* the characters the model's names are written in, in code point order
Ascii ==
    " +-.0123456789:@ABCDEFGHIJKLMNOPQRSTUVWXYZ_abcdefghijklmnopqrstuvwxyz"

\* the rank of c among them: ord(c) up to a monotone renumbering
Ord(c) == CHOOSE i \in 1..Len(Ascii) : Char(Ascii, i) = c

\* a < b on str
RECURSIVE StrLt(_, _)
StrLt(a, b) ==
    IF b = "" THEN FALSE
    ELSE IF a = "" THEN TRUE
    ELSE IF Char(a, 1) = Char(b, 1)
         THEN StrLt(SubSeq(a, 2, Len(a)), SubSeq(b, 2, Len(b)))
         ELSE Ord(Char(a, 1)) < Ord(Char(b, 1))

Fn(start, name, raw) == [start |-> start, name |-> name, raw |-> raw]
Sym(name, raw, address, type) ==
    [name |-> name, raw |-> raw, address |-> address, type |-> type]

\* no comment anywhere: comments are kept by address, and by function start
NoComments == [a \in {} |-> ""]

\* unlifted holds the starts of the functions whose hlil the engine does not
\* have; comments are the view's address comments (get_comment_at,
\* set_comment_at), fcomments the functions' own comments (Function.comment)
NoView ==
    [present |-> FALSE, filename |-> "", functions |-> <<>>, symbols |-> <<>>,
     types |-> {}, segments |-> <<>>, data_vars |-> <<>>,
     unlifted |-> {}, comments |-> NoComments, fcomments |-> NoComments]

\* a small binary whose names collide with address encodings and with one
\* another up to case
SmallView ==
    [present |-> TRUE, filename |-> "/bin/small",
     functions |-> << Fn(16, "main", "main"), Fn(10, "16", "16"),
                      Fn(32, "0x10", "0x10"), Fn(255, "Sub", "_Sub"),
                      Fn(256, "sub", "_sub"), Fn(0, "start", "_start") >>,
     symbols |-> << Sym("main", "main", 16, "FunctionSymbol"),
                    Sym("ns::Sub", "_Sub", 255, "FunctionSymbol"),
                    Sym("start", "_start", 0, "FunctionSymbol"),
                    Sym("puts", "puts", 48, "ImportedFunctionSymbol"),
                    Sym("ns::inner::tab", "_tab", 64, "DataSymbol"),
                    Sym("ext", "ext", 80, "ExternalSymbol") >>,
     types |-> {"Widget", "Base", "node"},
     segments |-> << [start |-> 0, end |-> 63], [start |-> 64, end |-> 127],
                     [start |-> 128, end |-> 511] >>,
     data_vars |-> << 64, 72, 96 >>,
     unlifted |-> {0}, comments |-> NoComments, fcomments |-> NoComments]

\* a binary with more functions than the not-found sample holds
BigView ==
    [present |-> TRUE, filename |-> "/bin/big",
     functions |-> [i \in 1..NBig |-> Fn(1000 + i, "f" \o Dec(i), "f" \o Dec(i))],
     symbols |-> << Sym("f1", "f1", 1001, "FunctionSymbol") >>,
     types |-> {},
     segments |-> << [start |-> 1000, end |-> 2000] >>,
     data_vars |-> << >>,
     unlifted |-> {}, comments |-> NoComments, fcomments |-> NoComments]

Binaries == {SmallView, BigView}

\* BinaryView.is_valid_offset
IsValidOffset(v, address) ==
    \E i \in 1..Len(v.segments) :
        v.segments[i].start <= address /\ address <= v.segments[i].end

\* BinaryView.get_function_at: the index of the function starting at addr, 0 for None
GetFunctionAt(v, addr) ==
    IF \E i \in 1..Len(v.functions) : v.functions[i].start = addr
    THEN CHOOSE i \in 1..Len(v.functions) : v.functions[i].start = addr
    ELSE 0

\* the first index of seq that satisfies Test, 0 when none does
FirstIndex(seq, Test(_)) ==
    IF \E i \in 1..Len(seq) : Test(seq[i])
    THEN CHOOSE i \in 1..Len(seq) :
            Test(seq[i]) /\ \A j \in 1..(i - 1) : ~Test(seq[j])
    ELSE 0

\* BinaryView.get_symbol_by_raw_name: the index of the symbol, 0 for None
GetSymbolByRawName(v, raw) ==
    LET Is(s) == s.raw = raw IN FirstIndex(v.symbols, Is)

\* BinaryView.get_symbol_at
GetSymbolAt(v, address) ==
    LET Is(s) == s.address = address IN FirstIndex(v.symbols, Is)

----------------------------------------------------------------------------
(* BinaryOperations.get_function_by_name_or_address, lines 62-111.         *)

Found(i, step) == [exc |-> NoExc, func |-> i, step |-> step]
Raised(e) == [exc |-> e, func |-> 0, step |-> ""]

UnboundAddr ==
    Raise("UnboundLocalError",
          "cannot access local variable 'addr' where it is not associated with a value")

\* the resolver's address step with every str read as hexadecimal
ParseAddressAsHex(id) ==
    IF id.t = "str"
    THEN With(PyInt(id.s, 16), LAMBDA p :
              [k |-> IF p.ok THEN "addr" ELSE "ValueError", n |-> p.n])
    ELSE IF id.t = "int" THEN [k |-> "addr", n |-> id.n]
    ELSE [k |-> "unbound", n |-> 0]

\* lines 78-81: the address an identifier encodes; k = "ValueError" when int()
\* raises it, k = "unbound" when neither branch assigns addr
ParseAddress(id) ==
    IF id.t = "str"
    THEN With(PyInt(id.s, IF StartsWith(id.s, "0x") THEN 16 ELSE 10), LAMBDA p :
              [k |-> IF p.ok THEN "addr" ELSE "ValueError", n |-> p.n])
    ELSE IF id.t = "int" THEN [k |-> "addr", n |-> id.n]
    ELSE [k |-> "unbound", n |-> 0]

\* the try block without its except clause: ValueError leaves the resolver
AddressLookupUncaught(v, id) ==
    With(ParseAddress(id), LAMBDA a :
         CASE a.k = "addr" -> Found(GetFunctionAt(v, a.n), "address")
           [] a.k = "ValueError" ->
                Raised(Raise("ValueError", "invalid literal for int() with base 10"))
           [] OTHER -> Raised(UnboundAddr))

\* lines 76-88: the try block.  ValueError is caught and passed over (func = 0);
\* reading the unassigned addr raises UnboundLocalError, which is not caught
AddressLookup(v, id) ==
    With(ParseAddress(id), LAMBDA a :
         CASE a.k = "addr" -> Found(GetFunctionAt(v, a.n), "address")
           [] a.k = "ValueError" -> Found(0, "address")
           [] OTHER -> Raised(UnboundAddr))

\* lines 90-94: exact, case-sensitive name
ExactNameLookup(v, id) ==
    LET Is(f) == id.t = "str" /\ f.name = id.s IN FirstIndex(v.functions, Is)

\* lines 96-100: case-insensitive name, first in enumeration order
LowerNameLookup(v, id) ==
    LET Is(f) == Lower(f.name) = Lower(PyStr(id)) IN FirstIndex(v.functions, Is)

\* lines 102-108: the symbol table, by raw name
SymbolLookup(v, id) ==
    With(GetSymbolByRawName(v, PyStr(id)), LAMBDA s :
         IF s # 0 /\ v.symbols[s].address # 0
         THEN GetFunctionAt(v, v.symbols[s].address)
         ELSE 0)

\* the same steps with the case-insensitive loop run before the exact one
NameLookupsLowerFirst(v, id) ==
    With(LowerNameLookup(v, id), LAMBDA byLower :
         IF byLower # 0 THEN Found(byLower, "lower")
         ELSE With(ExactNameLookup(v, id), LAMBDA byName :
                   IF byName # 0 THEN Found(byName, "name")
                   ELSE With(SymbolLookup(v, id), LAMBDA bySymbol :
                             IF bySymbol # 0 THEN Found(bySymbol, "symbol")
                             ELSE Found(0, ""))))

\* the steps after the address: the first that finds a function answers
NameLookups(v, id) ==
    With(ExactNameLookup(v, id), LAMBDA byName :
         IF byName # 0 THEN Found(byName, "name")
         ELSE With(LowerNameLookup(v, id), LAMBDA byLower :
                   IF byLower # 0 THEN Found(byLower, "lower")
                   ELSE With(SymbolLookup(v, id), LAMBDA bySymbol :
                             IF bySymbol # 0 THEN Found(bySymbol, "symbol")
                             ELSE Found(0, ""))))

\* the resolver with a ValueError of the address step ending resolution: the
\* later steps run only when the identifier parsed as an address
GetFunctionByNameOrAddressParseFatal(v, id) ==
    IF ~v.present THEN Raised(NoBinaryLoaded)
    ELSE With(AddressLookup(v, id), LAMBDA a :
              IF a.exc # NoExc \/ a.func # 0 \/ ParseAddress(id).k = "ValueError"
              THEN a ELSE NameLookups(v, id))

GetFunctionByNameOrAddress(v, id) ==
    IF ~v.present THEN Raised(NoBinaryLoaded)
    ELSE With(AddressLookup(v, id), LAMBDA a :
              IF a.exc # NoExc \/ a.func # 0 THEN a ELSE NameLookups(v, id))

----------------------------------------------------------------------------
(* Pagination: seq[offset : offset + limit] as Python slices.              *)

\* the index a slice bound denotes in a sequence of length n
SliceIndex(i, n) == IF i < 0 THEN Max(n + i, 0) ELSE Min(i, n)

\* seq[start:stop]
PySlice(seq, start, stop) ==
    SubSeq(seq, SliceIndex(start, Len(seq)) + 1, SliceIndex(stop, Len(seq)))

\* the slice seq[offset : limit]: the limit taken for the end index
PageToLimit(seq, offset, limit) == PySlice(seq, offset, limit)

\* the slice every list operation ends with
Page(seq, offset, limit) == PySlice(seq, offset, offset + limit)

Listed(seq) == [exc |-> NoExc, list |-> seq]
ListRaised(e) == [exc |-> e, list |-> <<>>]

\* the sequence seq with F applied to every element
MapSeq(seq, F(_)) == [i \in 1..Len(seq) |-> F(seq[i])]

\* the elements of seq that satisfy Test, in order
FilterSeq(seq, Test(_)) ==
    LET idx    == {i \in 1..Len(seq) : Test(seq[i])}
        Nth(k) == CHOOSE i \in idx : Cardinality({j \in idx : j <= i}) = k
    IN  [k \in 1..Cardinality(idx) |-> seq[Nth(k)]]

\* sorted(list(names))
RECURSIVE SortedStrings(_)
SortedStrings(names) ==
    IF names = {} THEN <<>>
    ELSE LET m == CHOOSE x \in names : \A y \in names : x = y \/ StrLt(x, y)
         IN  <<m>> \o SortedStrings(names \ {m})

\* list.sort(key = name): stable
RECURSIVE SortByName(_)
SortByName(seq) ==
    IF seq = <<>> THEN <<>>
    ELSE LET front == SortByName(SubSeq(seq, 1, Len(seq) - 1))
             x     == seq[Len(seq)]
             k     == Cardinality({i \in 1..Len(front) : ~StrLt(x.name, front[i].name)})
         IN  SubSeq(front, 1, k) \o <<x>> \o SubSeq(front, k + 1, Len(front))

\* lines 122-130: a function's descriptor
FunctionDescriptor(f) ==
    [name |-> f.name, address |-> Hex(f.start), raw_name |-> f.raw]

\* the sequence get_function_names builds before it slices, lines 120-130
FunctionList(v) == MapSeq(v.functions, FunctionDescriptor)

\* BinaryOperations.get_function_names, lines 113-132
GetFunctionNames(v, offset, limit) ==
    IF ~v.present THEN ListRaised(NoBinaryLoaded)
    ELSE Listed(Page(FunctionList(v), offset, limit))

ClassList(v) == SortedStrings(v.types)

\* BinaryOperations.get_class_names, lines 134-190: every named type object is
\* added (it has type_class); a failure of the enumeration is caught at line
\* 188 and the empty list returned
GetClassNames(v, offset, limit, fault) ==
    IF ~v.present THEN ListRaised(NoBinaryLoaded)
    ELSE IF fault THEN Listed(<<>>)
    ELSE Listed(Page(ClassList(v), offset, limit))

SegmentInfo(g) == [start |-> Hex(g.start), end |-> Hex(g.end)]
SegmentList(v) == MapSeq(v.segments, SegmentInfo)

\* BinaryOperations.get_segments, lines 192-232
GetSegments(v, offset, limit) ==
    IF ~v.present THEN ListRaised(NoBinaryLoaded)
    ELSE Listed(Page(SegmentList(v), offset, limit))

SymbolDescriptor(s) ==
    [name |-> s.name, address |-> Hex(s.address), raw_name |-> s.raw, type |-> s.type]

ImportList(v) ==
    LET Is(s) == s.type = "ImportedFunctionSymbol"
    IN  MapSeq(FilterSeq(v.symbols, Is), SymbolDescriptor)

\* BinaryNinjaEndpoints.get_imports, endpoints.py lines 27-46
GetImports(v, offset, limit) ==
    IF ~v.present THEN ListRaised(NoBinaryLoaded)
    ELSE Listed(Page(ImportList(v), offset, limit))

ExportList(v) ==
    LET Is(s) == s.type \notin {"ImportedFunctionSymbol", "ExternalSymbol"}
    IN  MapSeq(FilterSeq(v.symbols, Is), SymbolDescriptor)

\* BinaryNinjaEndpoints.get_exports, endpoints.py lines 48-72
GetExports(v, offset, limit) ==
    IF ~v.present THEN ListRaised(NoBinaryLoaded)
    ELSE Listed(Page(ExportList(v), offset, limit))

\* where the last "::" of name.split("::") starts, scanning from i; last so far
RECURSIVE LastSeparator(_, _, _)
LastSeparator(name, i, last) ==
    IF i >= Len(name) THEN last
    ELSE IF SubSeq(name, i, i + 1) = "::" THEN LastSeparator(name, i + 2, i)
    ELSE LastSeparator(name, i + 1, last)

\* "::".join(name.split("::")[:-1])
NamespaceOf(name) == SubSeq(name, 1, LastSeparator(name, 1, 0) - 1)

NamespaceList(v) ==
    SortedStrings({NamespaceOf(v.symbols[i].name) :
                     i \in {j \in 1..Len(v.symbols) : Contains(v.symbols[j].name, "::")}})

\* BinaryNinjaEndpoints.get_namespaces, endpoints.py lines 74-88
GetNamespaces(v, offset, limit) ==
    IF ~v.present THEN ListRaised(NoBinaryLoaded)
    ELSE Listed(Page(NamespaceList(v), offset, limit))

\* lines 421-433: a data variable's item; the view holds no type for it, so
\* the value is "(complex data)"
DataItem(v, var) ==
    [address |-> Hex(var),
     name |-> IF GetSymbolAt(v, var) # 0 THEN v.symbols[GetSymbolAt(v, var)].name
              ELSE "(unnamed)",
     value |-> "(complex data)"]

DataList(v) == [i \in 1..Len(v.data_vars) |-> DataItem(v, v.data_vars[i])]

\* BinaryOperations.get_defined_data, lines 390-435: a failure of the lookups
\* outside its inner try propagates to the caller
GetDefinedData(v, offset, limit, fault) ==
    IF ~v.present THEN ListRaised(NoBinaryLoaded)
    ELSE IF fault THEN ListRaised(FacadeError)
    ELSE Listed(Page(DataList(v), offset, limit))

\* the matches search_functions collects and sorts, endpoints.py lines 137-156
MatchList(v, term) ==
    LET Is(f) == Contains(Lower(f.name), Lower(term))
    IN  SortByName(MapSeq(FilterSeq(v.functions, Is), FunctionDescriptor))

\* BinaryNinjaEndpoints.search_functions, endpoints.py lines 127-157
SearchFunctions(v, term, offset, limit) ==
    IF ~v.present THEN ListRaised(NoBinaryLoaded)
    ELSE IF term = "" THEN Listed(<<>>)
    ELSE Listed(Page(MatchList(v, term), offset, limit))

----------------------------------------------------------------------------
(* BinaryOperations: load, function info, rename, decompile.               *)

\* what bn.open_view does with a file path: the binary of that name; for any
\* other path it raises or returns None, as the host's API version has it
OpenView(filepath, fault) ==
    IF filepath.t = "str" /\ \E b \in Binaries : b.filename = filepath.s
    THEN IF fault THEN [exc |-> FacadeError, view |-> NoView]
         ELSE [exc |-> NoExc,
               view |-> CHOOSE b \in Binaries : b.filename = filepath.s]
    ELSE IF fault THEN [exc |-> FacadeError, view |-> NoView]
         ELSE [exc |-> NoExc, view |-> NoView]

\* BinaryOperations.load_binary, lines 23-60: the handle is assigned whatever
\* the Facade returns; an exception is logged and raised again, the handle
\* unchanged
LoadBinary(v, filepath, fault) ==
    With(OpenView(filepath, fault), LAMBDA o :
        IF o.exc # NoExc THEN [exc |-> o.exc, view |-> v]
        ELSE [exc |-> NoExc, view |-> o.view])

NoInfo == [ok |-> FALSE, name |-> "", raw_name |-> "", address |-> ""]

\* BinaryOperations.get_function_info, lines 315-343
GetFunctionInfo(v, id) ==
    IF ~v.present THEN [exc |-> NoBinaryLoaded, info |-> NoInfo]
    ELSE With(GetFunctionByNameOrAddress(v, id), LAMBDA r :
             IF r.exc # NoExc THEN [exc |-> r.exc, info |-> NoInfo]
             ELSE IF r.func = 0 THEN [exc |-> NoExc, info |-> NoInfo]
             ELSE [exc |-> NoExc,
                   info |-> [ok |-> TRUE,
                             name |-> v.functions[r.func].name,
                             raw_name |-> v.functions[r.func].raw,
                             address |-> Hex(v.functions[r.func].start)]])

\* Function.name = new_name in the Facade
SetFunctionName(v, i, new_name) ==
    [v EXCEPT !.functions[i].name = new_name]

\* BinaryOperations.rename_function, lines 234-313: every exception, the
\* resolver's and the Facade's at the assignment of line 266, is caught and
\* turned into False
RenameFunction(v, old_name, new_name, fault) ==
    IF ~v.present THEN [exc |-> NoBinaryLoaded, ret |-> FALSE, view |-> v]
    ELSE With(GetFunctionByNameOrAddress(v, old_name), LAMBDA r :
             IF r.exc # NoExc \/ r.func = 0
             THEN [exc |-> NoExc, ret |-> FALSE, view |-> v]
             ELSE IF ~Truthy(new_name) \/ new_name.t # "str"
             THEN [exc |-> NoExc, ret |-> FALSE, view |-> v]
             ELSE IF fault
             THEN [exc |-> NoExc, ret |-> FALSE, view |-> v]
             ELSE [exc |-> NoExc, ret |-> TRUE,
                   view |-> SetFunctionName(v, r.func, new_name.s)])

\* BinaryView.define_user_symbol of a data symbol: it replaces the data symbol
\* at that address
DefineDataSymbol(v, address, name) ==
    LET Keep(s) == ~(s.address = address /\ s.type = "DataSymbol")
    IN  [v EXCEPT !.symbols =
            FilterSeq(v.symbols, Keep) \o <<Sym(name, name, address, "DataSymbol")>>]

\* BinaryOperations.rename_data, lines 375-388: a Facade failure is caught
\* and False returned
RenameData(v, address, new_name, fault) ==
    IF ~v.present THEN [exc |-> NoBinaryLoaded, ret |-> FALSE, view |-> v]
    ELSE IF fault \/ new_name.t # "str"
    THEN [exc |-> NoExc, ret |-> FALSE, view |-> v]
    ELSE IF IsValidOffset(v, address)
    THEN [exc |-> NoExc, ret |-> TRUE, view |-> DefineDataSymbol(v, address, new_name.s)]
    ELSE [exc |-> NoExc, ret |-> FALSE, view |-> v]

\* func.hlil in the Facade: the lifted function, or None where the engine
\* has none (API versions that raise instead are the fault of the request)
Hlil(v, f) == IF f.start \in v.unlifted THEN None ELSE StrVal("hlil " \o f.name)

\* BinaryOperations.decompile_function, lines 345-373: text is None when the
\* function is not found or the Facade fails to lift it
DecompileFunction(v, id, fault) ==
    IF ~v.present THEN [exc |-> NoBinaryLoaded, text |-> None]
    ELSE With(GetFunctionByNameOrAddress(v, id), LAMBDA r :
             IF r.exc # NoExc THEN [exc |-> r.exc, text |-> None]
             ELSE IF r.func = 0 \/ fault THEN [exc |-> NoExc, text |-> None]
             ELSE [exc |-> NoExc, text |-> StrVal(PyStr(Hlil(v, v.functions[r.func])))])

----------------------------------------------------------------------------
(* BinaryOperations: the comment operations, lines 437-563.                *)

\* a store of comments without the comment at address a
WithoutComment(store, a) == [x \in DOMAIN store \ {a} |-> store[x]]

\* a store of comments with text at address a; None and "" leave no comment
WithComment(store, a, comment) ==
    IF comment.t = "str" /\ comment.s # ""
    THEN [x \in DOMAIN store \cup {a} |-> IF x = a THEN comment.s ELSE store[x]]
    ELSE WithoutComment(store, a)

\* BinaryView.set_comment_at and get_comment_at: the view's address comments
SetCommentAt(v, address, comment) ==
    [v EXCEPT !.comments = WithComment(v.comments, address, comment)]
GetCommentAt(v, address) ==
    IF address \in DOMAIN v.comments THEN StrVal(v.comments[address]) ELSE StrVal("")

\* Function.comment = ...: the function's own comment
SetFunctionCommentAttr(v, f, comment) ==
    [v EXCEPT !.fcomments = WithComment(v.fcomments, f.start, comment)]

\* what a comment operation returns and the view it leaves
Returned(ret, v) == [exc |-> NoExc, ret |-> ret, view |-> v]

\* set_comment, lines 437-460
SetComment(v, address, comment, fault) ==
    IF ~v.present THEN [exc |-> NoBinaryLoaded, ret |-> FALSE, view |-> v]
    ELSE IF fault \/ ~IsValidOffset(v, address) THEN Returned(FALSE, v)
    ELSE Returned(TRUE, SetCommentAt(v, address, comment))

\* set_function_comment, lines 462-486: written at the function's start
\* among the view's address comments
SetFunctionComment(v, id, comment, fault) ==
    IF ~v.present THEN [exc |-> NoBinaryLoaded, ret |-> FALSE, view |-> v]
    ELSE With(GetFunctionByNameOrAddress(v, id), LAMBDA r :
              IF fault \/ r.exc # NoExc \/ r.func = 0 THEN Returned(FALSE, v)
              ELSE Returned(TRUE, SetCommentAt(v, v.functions[r.func].start, comment)))

\* get_comment, lines 488-509: None for no comment and for an empty one
GetComment(v, address, fault) ==
    IF ~v.present THEN [exc |-> NoBinaryLoaded, ret |-> None, view |-> v]
    ELSE IF fault \/ ~IsValidOffset(v, address) THEN Returned(None, v)
    ELSE Returned(IF Truthy(GetCommentAt(v, address)) THEN GetCommentAt(v, address)
                  ELSE None, v)

\* get_function_comment, lines 511-533: read at the function's start among
\* the view's address comments
GetFunctionComment(v, id, fault) ==
    IF ~v.present THEN [exc |-> NoBinaryLoaded, ret |-> None, view |-> v]
    ELSE With(GetFunctionByNameOrAddress(v, id), LAMBDA r :
              IF fault \/ r.exc # NoExc \/ r.func = 0 THEN Returned(None, v)
              ELSE With(GetCommentAt(v, v.functions[r.func].start), LAMBDA comment :
                        Returned(IF Truthy(comment) THEN comment ELSE None, v)))

\* delete_comment, lines 535-546
DeleteComment(v, address, fault) ==
    IF ~v.present THEN [exc |-> NoBinaryLoaded, ret |-> FALSE, view |-> v]
    ELSE IF fault \/ ~IsValidOffset(v, address) THEN Returned(FALSE, v)
    ELSE Returned(TRUE, SetCommentAt(v, address, None))

\* delete_function_comment, lines 548-563: func.comment = None clears the
\* function's own comment, not the address comment at its start
DeleteFunctionComment(v, id, fault) ==
    IF ~v.present THEN [exc |-> NoBinaryLoaded, ret |-> FALSE, view |-> v]
    ELSE With(GetFunctionByNameOrAddress(v, id), LAMBDA r :
              IF fault \/ r.exc # NoExc \/ r.func = 0 THEN Returned(FALSE, v)
              ELSE Returned(TRUE, SetFunctionCommentAttr(v, v.functions[r.func], None)))

----------------------------------------------------------------------------
(* Requests, parameter maps and responses.                                 *)

\* dict.get(k): a dict is a function from its keys
Get(d, k) == IF k \in DOMAIN d THEN d[k] ELSE None

EmptyDict == [k \in {} |-> None]

\* what a decoder returns: a dict, or the str or other value json.loads gave
Dict(d) == [kind |-> "dict", d |-> d, s |-> ""]
JsonStr(s) == [kind |-> "str", d |-> EmptyDict, s |-> s]
\* a JSON list and a JSON number: s is the name of the Python type
JsonOther == [kind |-> "other", d |-> EmptyDict, s |-> "list"]
JsonNumber == [kind |-> "other", d |-> EmptyDict, s |-> "int"]

\* a request body: its text, whether its bytes are UTF-8, and what json.loads
\* and urllib.parse.parse_qsl make of the text
Body(raw, utf8, jsonOk, json, form) ==
    [raw |-> raw, utf8 |-> utf8, jsonOk |-> jsonOk, json |-> json, form |-> form]

NoBody == Body("", TRUE, FALSE, JsonOther, EmptyDict)

NoRequest ==
    [method |-> "", path |-> "", query |-> EmptyDict, clen |-> None, ctype |-> "",
     body |-> NoBody, fault |-> FALSE, hangup |-> "no"]

\* the JSON envelope written by _send_json_response (lines 37-39) with its
\* status; handler and calls record which route branch ran and which
\* BinaryOperations / Endpoints methods it invoked, window the offset and
\* limit a list route handed to its list operation, identifier what a
\* function route handed to get_function_info, received the decoded
\* parameters echoed under "received" or "received_params", lines and
\* envelopes the status lines and JSON bodies that reached the connection
NoParams == [kind |-> "none", d |-> EmptyDict, s |-> ""]

Resp0 ==
    [status |-> 0, key |-> "", error |-> "", list |-> <<>>, loaded |-> FALSE,
     filename |-> None, requestedKey |-> "", requested |-> None,
     hasAvailable |-> FALSE, available |-> <<>>, function |-> NoInfo, text |-> None,
     success |-> FALSE, handler |-> "", calls |-> {}, window |-> <<0, 0>>,
     identifier |-> None, received |-> NoParams, lines |-> 0, envelopes |-> 0]

ErrorResponse(status, msg) == [Resp0 EXCEPT !.status = status, !.key = "error", !.error = msg]
ListResponse(key, seq) == [Resp0 EXCEPT !.status = 200, !.key = key, !.list = seq]

By(r, handler, calls) == [r EXCEPT !.handler = handler, !.calls = calls]

\* parse_int_or_default's defaults at lines 114-115, and the size of the
\* sample of available functions at lines 203-205, 317 and 386-388
DefaultOffset == 0
DefaultLimit == 100
\* the sample taken with the default page size
SampleOfDefaultLimit == DefaultLimit
SampleSize == 10

\* string_utils.parse_int_or_default, lines 14-21
ParseIntOrDefault(val, default) ==
    CASE val.t = "none" -> default
      [] val.t = "int" -> val.n
      [] val.t = "str" -> IF PyInt(val.s, 10).ok THEN PyInt(val.s, 10).n ELSE default
      [] OTHER -> default

----------------------------------------------------------------------------
(* MCPRequestHandler._parse_post_params, lines 45-97.                      *)

InvalidLiteral(s) ==
    Raise("ValueError", "invalid literal for int() with base 10: '" \o s \o "'")
UndecodableBody ==
    Raise("UnicodeDecodeError", "'utf-8' codec can't decode byte 0xff in position 0: invalid start byte")

Decoded(params) == [exc |-> NoExc, params |-> params]
DecodeRaised(e) == [exc |-> e, params |-> Dict(EmptyDict)]

\* lines 82-84: the raw-text rule
RawText(body) == Dict("name" :> StrVal(Strip(body.raw)))

\* lines 86-97: the fallback for an unrecognized content type
DecodeFallback(body) ==
    IF body.jsonOk THEN body.json
    ELSE IF DOMAIN body.form # {} THEN Dict(body.form)
    ELSE RawText(body)

\* the decoder without the return of lines 57-58: a body of no length is
\* read and parsed like any other
ParsePostParamsBodyFirst(r) ==
    With(IF r.clen.t = "none" THEN [ok |-> TRUE, n |-> 0] ELSE PyInt(r.clen.s, 10),
         LAMBDA length :
         With(Lower(r.ctype), LAMBDA ctype :
              IF ~length.ok THEN DecodeRaised(InvalidLiteral(r.clen.s))
              ELSE IF ~r.body.utf8 THEN DecodeRaised(UndecodableBody)
              ELSE IF Contains(ctype, "application/json")
              THEN IF r.body.jsonOk THEN Decoded(r.body.json)
                   ELSE Decoded(Dict("error" :> StrVal("Invalid JSON format")))
              ELSE IF Contains(ctype, "application/x-www-form-urlencoded")
              THEN Decoded(Dict(r.body.form))
              ELSE IF Contains(ctype, "text/plain") \/ r.ctype = ""
              THEN Decoded(RawText(r.body))
              ELSE Decoded(DecodeFallback(r.body))))

\* lines 45-97: Content-Length as an int, the body as UTF-8, then by content type
ParsePostParams(r) ==
    With(IF r.clen.t = "none" THEN [ok |-> TRUE, n |-> 0] ELSE PyInt(r.clen.s, 10),
         LAMBDA length :
         With(Lower(r.ctype), LAMBDA ctype :
              IF ~length.ok THEN DecodeRaised(InvalidLiteral(r.clen.s))
              ELSE IF length.n = 0 THEN Decoded(Dict(EmptyDict))
              ELSE IF ~r.body.utf8 THEN DecodeRaised(UndecodableBody)
              ELSE IF Contains(ctype, "application/json")
              THEN IF r.body.jsonOk THEN Decoded(r.body.json)
                   ELSE Decoded(Dict("error" :> StrVal("Invalid JSON format")))
              ELSE IF Contains(ctype, "application/x-www-form-urlencoded")
              THEN Decoded(Dict(r.body.form))
              ELSE IF Contains(ctype, "text/plain") \/ r.ctype = ""
              THEN Decoded(RawText(r.body))
              ELSE Decoded(DecodeFallback(r.body))))

----------------------------------------------------------------------------
(* MCPRequestHandler: the precondition, do_GET and _handle_decompile.      *)

\* _check_binary_loaded, lines 99-104 (binary_ops is the object MCPServer.start
\* puts on the handler class, never None)
CheckBinaryLoaded(v) == v.present

NoBinaryResponse == ErrorResponse(400, "No binary loaded")
NotFoundResponse == ErrorResponse(404, "Not found")

\* lines 181-183 and 408-410: the outer except clause
InternalError(e) == ErrorResponse(500, e.msg)

\* a list route: the payload under its key, or the exception for the outer
\* except clause
ListRoute(key, got, handler, call, offset, limit) ==
    [(IF got.exc # NoExc THEN By(InternalError(got.exc), handler, {call})
      ELSE By(ListResponse(key, got.list), handler, {call}))
     EXCEPT !.window = <<offset, limit>>]

\* lines 117-125
StatusRoute(v) ==
    By([Resp0 EXCEPT !.status = 200, !.key = "status", !.loaded = v.present,
                     !.filename = IF v.present THEN StrVal(v.filename) ELSE None],
       "status", {})

\* lines 232-235: the except clause of _handle_decompile
DecompilationError(function_name, e) ==
    [ErrorResponse(500, "Decompilation error: " \o e.msg)
       EXCEPT !.requestedKey = "requested_name", !.requested = function_name]

\* the 404 envelope of lines 201-210 and 316-325
NotFoundEnvelope(key, requested, available) ==
    [ErrorResponse(404, "Function not found")
       EXCEPT !.requestedKey = key, !.requested = requested, !.hasAvailable = TRUE,
              !.available = available]

\* lines 201-210: the not-found envelope with a sample of the function names
FunctionNotFound(v, function_name, handler, calls) ==
    With(GetFunctionNames(v, 0, SampleSize), LAMBDA names :
         IF names.exc # NoExc
         THEN By(DecompilationError(function_name, names.exc), handler,
                 calls \cup {"get_function_names"})
         ELSE By(NotFoundEnvelope("requested_name", function_name, names.list), handler,
                 calls \cup {"get_function_names"}))

\* lines 213-230: the decompilation of a function that was found
Decompiled(v, function_name, info, fault) ==
    With(DecompileFunction(v, function_name, fault), LAMBDA text :
         IF text.exc # NoExc
         THEN By(DecompilationError(function_name, text.exc), "decompile",
                 {"get_function_info", "decompile_function"})
         ELSE IF text.text = None
         THEN By([ErrorResponse(500, "Decompilation failed") EXCEPT !.function = info],
                 "decompile", {"get_function_info", "decompile_function"})
         ELSE By([Resp0 EXCEPT !.status = 200, !.key = "decompiled",
                               !.text = text.text, !.function = info],
                 "decompile", {"get_function_info", "decompile_function"}))

\* _handle_decompile, lines 185-235
HandleDecompile(v, function_name, fault) ==
    [With(GetFunctionInfo(v, function_name), LAMBDA got :
          IF got.exc # NoExc
          THEN By(DecompilationError(function_name, got.exc), "decompile",
                  {"get_function_info"})
          ELSE IF ~got.info.ok
          THEN FunctionNotFound(v, function_name, "decompile", {"get_function_info"})
          ELSE Decompiled(v, function_name, got.info, fault))
       EXCEPT !.identifier = function_name]

MissingNameGet ==
    "Missing function name parameter. Use ?name=function_name or ?functionName=function_name"

\* lines 165-176: GET /decompile
DecompileGet(v, function_name, fault) ==
    IF ~Truthy(function_name) THEN By(ErrorResponse(400, MissingNameGet), "decompile", {})
    ELSE HandleDecompile(v, function_name, fault)

\* lines 117-179: the route chain of do_GET
Route(v, r, params, path, offset, limit) ==
    CASE path = "/status" -> StatusRoute(v)
      [] path \in {"/functions", "/methods"} ->
           ListRoute("functions", GetFunctionNames(v, offset, limit),
                     "functions", "get_function_names", offset, limit)
      [] path = "/classes" ->
           ListRoute("classes", GetClassNames(v, offset, limit, r.fault),
                     "classes", "get_class_names", offset, limit)
      [] path = "/segments" ->
           ListRoute("segments", GetSegments(v, offset, limit),
                     "segments", "get_segments", offset, limit)
      [] path = "/imports" ->
           ListRoute("imports", GetImports(v, offset, limit),
                     "imports", "get_imports", offset, limit)
      [] path = "/exports" ->
           ListRoute("exports", GetExports(v, offset, limit),
                     "exports", "get_exports", offset, limit)
      [] path = "/namespaces" ->
           ListRoute("namespaces", GetNamespaces(v, offset, limit),
                     "namespaces", "get_namespaces", offset, limit)
      [] path = "/data" ->
           ListRoute("data", GetDefinedData(v, offset, limit, r.fault),
                     "data", "get_defined_data", offset, limit)
      [] path = "/searchFunctions" ->
           ListRoute("matches",
                     SearchFunctions(v, PyStr(Or(Get(params, "query"), StrVal(""))),
                                     offset, limit),
                     "searchFunctions", "search_functions", offset, limit)
      [] path = "/decompile" ->
           DecompileGet(v, Or(Get(params, "name"), Get(params, "functionName")), r.fault)
      [] OTHER -> NotFoundResponse

\* lines 107-115: the path, the query and the window every list route shares
GetRoutes(v, r) ==
    Route(v, r, r.query, r.path,
          ParseIntOrDefault(Get(r.query, "offset"), DefaultOffset),
          ParseIntOrDefault(Get(r.query, "limit"), DefaultLimit))

\* do_GET, lines 106-183: every path that does not begin with "/status" is
\* first checked for a loaded binary
DoGET(v, r) ==
    IF ~StartsWith(r.path, "/status") /\ ~CheckBinaryLoaded(v)
    THEN NoBinaryResponse
    ELSE GetRoutes(v, r)

----------------------------------------------------------------------------
(* MCPRequestHandler.do_POST, lines 237-410.                               *)

Answer(response, v) == [resp |-> response, view |-> v]

\* params.get on what is no dict
NoGetAttribute(params) ==
    Raise("AttributeError",
          "'" \o (IF params.kind = "str" THEN "str" ELSE params.s)
              \o "' object has no attribute 'get'")
TooManyValues == Raise("ValueError", "too many values to unpack (expected 2)")

\* lines 247-261
LoadRoute(v, params, fault) ==
    IF params.kind # "dict" THEN Answer(By(InternalError(NoGetAttribute(params)), "load", {}), v)
    ELSE IF ~Truthy(Get(params.d, "filepath"))
    THEN Answer(By(ErrorResponse(400, "Missing filepath parameter"), "load", {}), v)
    ELSE With(LoadBinary(v, Get(params.d, "filepath"), fault), LAMBDA got :
              IF got.exc # NoExc
              THEN Answer(By(ErrorResponse(500, got.exc.msg), "load", {"load_binary"}), v)
              ELSE Answer(By([Resp0 EXCEPT !.status = 200, !.key = "success",
                                           !.success = TRUE],
                             "load", {"load_binary"}),
                          got.view))

\* lines 282-290: an old name that encodes an address becomes that int
NormalizeOldName(old_name) ==
    IF old_name.t # "str" THEN old_name
    ELSE IF StartsWith(old_name.s, "0x")
    THEN With(PyInt(old_name.s, 16), LAMBDA p : IF p.ok THEN IntVal(p.n) ELSE old_name)
    ELSE IF IsDigitStr(old_name.s) THEN IntVal(PyInt(old_name.s, 10).n)
    ELSE old_name

\* lines 296-313: the function was found, rename_function is called
RenameFound(v, old_name, new_name, info, fault) ==
    With(RenameFunction(v, old_name, new_name, fault), LAMBDA done :
         IF done.exc # NoExc
         THEN Answer(By(InternalError(done.exc), "renameFunction",
                        {"get_function_info", "rename_function"}), v)
         ELSE IF done.ret
         THEN Answer(By([Resp0 EXCEPT !.status = 200, !.key = "success",
                                      !.success = TRUE, !.function = info],
                        "renameFunction", {"get_function_info", "rename_function"}),
                     done.view)
         ELSE Answer(By([ErrorResponse(500, "Failed to rename function")
                           EXCEPT !.function = info],
                        "renameFunction", {"get_function_info", "rename_function"}),
                     done.view))

\* lines 314-327: the function was not found
RenameNotFound(v, old_name) ==
    With(GetFunctionNames(v, 0, SampleSize), LAMBDA names :
         IF names.exc # NoExc
         THEN Answer(By(InternalError(names.exc), "renameFunction",
                        {"get_function_info", "get_function_names"}), v)
         ELSE Answer(By(NotFoundEnvelope("requested", old_name, names.list), "renameFunction",
                        {"get_function_info", "get_function_names"}), v))

\* lines 292-327: get_function_info validates the normalised old name
RenameResolved(v, old_name, new_name, fault) ==
    [With(GetFunctionInfo(v, old_name), LAMBDA got :
          IF got.exc # NoExc
          THEN Answer(By(InternalError(got.exc), "renameFunction", {"get_function_info"}), v)
          ELSE IF got.info.ok THEN RenameFound(v, old_name, new_name, got.info, fault)
          ELSE RenameNotFound(v, old_name))
       EXCEPT !.resp.identifier = old_name]

\* lines 271-290
RenameRequested(v, params, old_name, new_name, fault) ==
    IF ~Truthy(old_name) \/ ~Truthy(new_name)
    THEN Answer(By([ErrorResponse(400, "Missing parameters") EXCEPT !.received = params],
                   "renameFunction", {}), v)
    ELSE RenameResolved(v, NormalizeOldName(old_name), new_name, fault)

\* lines 263-327
RenameFunctionRoute(v, params, fault) ==
    IF params.kind # "dict"
    THEN Answer(By(InternalError(NoGetAttribute(params)), "renameFunction", {}), v)
    ELSE RenameRequested(v, params,
                         Or(Get(params.d, "oldName"), Get(params.d, "old_name")),
                         Or(Get(params.d, "newName"), Get(params.d, "new_name")), fault)

\* lines 336-339: int(address, 16) of a str, int(address) of a number
AddressInt(address) ==
    CASE address.t = "str" -> PyInt(address.s, 16)
      [] address.t = "int" -> [ok |-> TRUE, n |-> address.n]
      [] OTHER -> [ok |-> TRUE, n |-> 1]

\* lines 335-343: ValueError from int() answers 400, any other exception
\* reaches the outer except clause
RenameDataAt(v, address_int, new_name, fault) ==
    IF ~address_int.ok
    THEN Answer(By(ErrorResponse(400, "Invalid address format"), "renameData", {}), v)
    ELSE With(RenameData(v, address_int.n, new_name, fault), LAMBDA done :
              IF done.exc # NoExc
              THEN Answer(By(InternalError(done.exc), "renameData", {"rename_data"}), v)
              ELSE Answer(By([Resp0 EXCEPT !.status = 200, !.key = "success",
                                           !.success = done.ret],
                             "renameData", {"rename_data"}),
                          done.view))

\* lines 331-334
RenameDataRequested(v, address, new_name, fault) ==
    IF ~Truthy(address) \/ ~Truthy(new_name)
    THEN Answer(By(ErrorResponse(400, "Missing parameters"), "renameData", {}), v)
    ELSE RenameDataAt(v, AddressInt(address), new_name, fault)

\* lines 329-343
RenameDataRoute(v, params, fault) ==
    IF params.kind # "dict"
    THEN Answer(By(InternalError(NoGetAttribute(params)), "renameData", {}), v)
    ELSE RenameDataRequested(v, Get(params.d, "address"),
                             Or(Get(params.d, "newName"), Get(params.d, "new_name")), fault)

\* how many times the character c occurs in s
CountChar(s, c) == Cardinality({i \in 1..Len(s) : Char(s, i) = c})

\* the index of the first c in s
IndexOf(s, c) == CHOOSE i \in 1..Len(s) : Char(s, i) = c /\ \A j \in 1..(i - 1) : Char(s, j) # c

\* lines 397-401: the address part when it parses, else the name part
AddressOrName(name, addr) ==
    With(PyInt(addr, IF StartsWith(addr, "0x") THEN 16 ELSE 10), LAMBDA p :
         IF p.ok THEN [exc |-> NoExc, id |-> IntVal(p.n)]
         ELSE [exc |-> NoExc, id |-> StrVal(name)])

\* the two parts of s around its only "@"
SplitParts(s, at) == AddressOrName(SubSeq(s, 1, at - 1), SubSeq(s, at + 1, Len(s)))

\* lines 394-401: name, addr = function_name.split("@"), which raises ValueError
\* unless there is exactly one "@"
SplitAtAddress(function_name) ==
    IF ~Contains(PyStr(function_name), "@")
    THEN [exc |-> NoExc, id |-> function_name]
    ELSE IF CountChar(function_name.s, "@") > 1
    THEN [exc |-> TooManyValues, id |-> function_name]
    ELSE SplitParts(function_name.s, IndexOf(function_name.s, "@"))

\* lines 376-391: no function name was sent
MissingNamePost(v, params) ==
    With(GetFunctionNames(v, 0, SampleSize), LAMBDA names :
         IF names.exc # NoExc
         THEN By(InternalError(names.exc), "decompile", {"get_function_names"})
         ELSE By([ErrorResponse(400, "Missing function name parameter")
                    EXCEPT !.hasAvailable = TRUE, !.available = names.list,
                           !.received = params],
                 "decompile", {"get_function_names"}))

\* lines 376-403
DecompileNamed(v, params, function_name, fault) ==
    IF ~Truthy(function_name) THEN MissingNamePost(v, params)
    ELSE With(SplitAtAddress(function_name), LAMBDA split :
              IF split.exc # NoExc THEN By(InternalError(split.exc), "decompile", {})
              ELSE HandleDecompile(v, split.id, fault))

\* lines 345-403: the function name from a dict under one of four keys, or
\* the stripped text of a str
DecompileRoute(v, params, fault) ==
    DecompileNamed(v, params,
                   CASE params.kind = "dict" ->
                          Or(Get(params.d, "functionName"),
                             Or(Get(params.d, "name"),
                                Or(Get(params.d, "function"), Get(params.d, "data"))))
                     [] params.kind = "str" -> StrVal(Strip(params.s))
                     [] OTHER -> None,
                   fault)

\* the route chain of do_POST with one spelling of the rename route only
PostRoutesOneSpelling(v, r, params) ==
    CASE r.path = "/load" -> LoadRoute(v, params, r.fault)
      [] r.path = "/rename/function" -> RenameFunctionRoute(v, params, r.fault)
      [] r.path \in {"/rename/data", "/renameData"} ->
           RenameDataRoute(v, params, r.fault)
      [] r.path = "/decompile" -> Answer(DecompileRoute(v, params, r.fault), v)
      [] OTHER -> Answer(NotFoundResponse, v)

\* lines 247-406: the route chain of do_POST
PostRoutes(v, r, params) ==
    CASE r.path = "/load" -> LoadRoute(v, params, r.fault)
      [] r.path \in {"/rename/function", "/renameFunction"} ->
           RenameFunctionRoute(v, params, r.fault)
      [] r.path \in {"/rename/data", "/renameData"} ->
           RenameDataRoute(v, params, r.fault)
      [] r.path = "/decompile" -> Answer(DecompileRoute(v, params, r.fault), v)
      [] OTHER -> Answer(NotFoundResponse, v)

\* do_POST, lines 237-410: the precondition, the decoder, then the routes
DoPOST(v, r) ==
    IF ~CheckBinaryLoaded(v) THEN Answer(NoBinaryResponse, v)
    ELSE With(ParsePostParams(r), LAMBDA decoded :
              IF decoded.exc # NoExc THEN Answer(InternalError(decoded.exc), v)
              ELSE PostRoutes(v, r, decoded.params))

----------------------------------------------------------------------------
(* The requests the model sends.                                           *)

GetRequest(path, query, fault) ==
    [NoRequest EXCEPT !.method = "GET", !.path = path, !.query = query, !.fault = fault]

PostRequest(path, clen, ctype, body, fault) ==
    [NoRequest EXCEPT !.method = "POST", !.path = path, !.clen = clen,
                      !.ctype = ctype, !.body = body, !.fault = fault]

\* a dict of the given entries without those whose value is None (absent)
Present(d) == [k \in {x \in DOMAIN d : d[x] # None} |-> d[k]]

\* "k=v&k=v" of a dict of strings, the keys in sorted order
RECURSIVE JoinPairs(_, _)
JoinPairs(d, keys) ==
    IF keys = <<>> THEN ""
    ELSE keys[1] \o "=" \o PyStr(d[keys[1]])
         \o (IF Len(keys) > 1 THEN "&" ELSE "")
         \o JoinPairs(d, SubSeq(keys, 2, Len(keys)))

\* a form-encoded body: no JSON document, the pairs as parse_qsl reads them
FormBody(d) == Body(JoinPairs(d, SortedStrings(DOMAIN d)), TRUE, FALSE, JsonOther, d)

\* a JSON document: its text holds no "=", so parse_qsl reads no pair from it
JsonBody(raw, val) == Body(raw, TRUE, TRUE, val, EmptyDict)

\* a bare word: a JSON document only when it is a number
TextBody(raw) ==
    Body(raw, TRUE, IsDigitStr(raw) /\ (Len(raw) = 1 \/ Char(raw, 1) # "0"),
         JsonNumber, EmptyDict)

\* bytes that are no UTF-8
BinaryBody == Body("", FALSE, FALSE, JsonOther, EmptyDict)

\* the Content-Length header a client computes
LengthOf(body) == StrVal(Dec(IF body.utf8 THEN Len(body.raw) ELSE 2))

FormType == "application/x-www-form-urlencoded"
JsonType == "application/json"

Offsets == {None, StrVal("0"), StrVal("2"), StrVal("20"), StrVal("-1"), StrVal("abc")}
Limits == {None, StrVal("0"), StrVal("1"), StrVal("3"), StrVal("-2"), StrVal("x")}

ListPaths ==
    {"/functions", "/methods", "/classes", "/segments", "/imports", "/exports",
     "/namespaces", "/data"}

\* the list paths whose operation guards a Facade failure
FalliblePaths == {"/classes", "/data"}

\* identifiers: address encodings, names, names up to case, raw symbol
\* names, and strings that are neither
IdStrings ==
    {"0x10", "16", "10", "0", "0x0", "0xff", "255", "main", "MAIN", "sub", "SUB",
     "_Sub", "_start", "f11", "nosuch", "0xzz", "0x", "-1", " 16", "1_6", "0X10"}

NewNames == {"16", "renamed"}

----------------------------------------------------------------------------
(* The host thread: BinaryNinjaMCP.start_server and stop_server.           *)

Init ==
    /\ view = NoView
    /\ serving = FALSE
    /\ host = "idle"
    /\ mutations = 0
    /\ req = NoRequest
    /\ checked = NoView
    /\ before = NoView
    /\ resp = Resp0

\* the server thread is between two requests
Idle == req = NoRequest

\* start_server, plugin/__init__.py lines 11-19: the handle is set, then the
\* server thread started (a second start fails to bind and is logged)
StartServer ==
    /\ host = "idle" /\ Idle
    /\ \E bv \in Binaries : view' = bv
    /\ serving' = TRUE
    /\ UNCHANGED <<host, mutations, req, checked, before, resp>>

\* stop_server, line 23: the handle is cleared first
StopServerClear ==
    /\ host = "idle" /\ Idle
    /\ view' = NoView
    /\ host' = "stopping"
    /\ UNCHANGED <<serving, mutations, req, checked, before, resp>>

\* a stop that closes the listening socket without waiting for the serving
\* loop and its thread (no shutdown(), no join())
StopServerNoJoin ==
    /\ host = "stopping"
    /\ serving' = FALSE
    /\ host' = "idle"
    /\ UNCHANGED <<view, mutations, req, checked, before, resp>>

\* stop_server, line 24, MCPServer.stop lines 448-455: the serving loop is
\* shut down and joined; requests that arrive in between are still served
StopServerShutdown ==
    /\ host = "stopping" /\ Idle
    /\ serving' = FALSE
    /\ host' = "idle"
    /\ UNCHANGED <<view, mutations, req, checked, before, resp>>

----------------------------------------------------------------------------
(* The server thread: one request handled to completion.                   *)

\* the connection before anything is written to it
NoWire == [lines |-> 0, envelopes |-> 0, open |-> TRUE, raised |-> FALSE]

\* _set_headers and _send_json_response, lines 31-39: the status line and the
\* headers are written by end_headers, then the body by wfile.write.  hangup
\* says where the client has closed the connection: the write at that point
\* raises OSError, and so does every write after it
SendJsonResponse(w, hangup) ==
    IF ~w.open \/ hangup = "headers"
    THEN [w EXCEPT !.open = FALSE, !.raised = TRUE]
    ELSE IF hangup = "body"
    THEN [w EXCEPT !.lines = w.lines + 1, !.open = FALSE, !.raised = TRUE]
    ELSE [w EXCEPT !.lines = w.lines + 1, !.envelopes = w.envelopes + 1,
                   !.raised = FALSE]

\* the route's _send_json_response and, when it raises, the one of the outer
\* except clause (lines 181-183 and 408-410), which runs whether or not a
\* response has begun
Respond(response, hangup) ==
    With(SendJsonResponse(NoWire, hangup), LAMBDA first :
         With(IF first.raised THEN SendJsonResponse(first, hangup) ELSE first,
              LAMBDA w : [response EXCEPT !.lines = w.lines,
                                          !.envelopes = w.envelopes]))

\* BaseHTTPRequestHandler dispatches on the method to do_GET or do_POST
Dispatch(v, r) ==
    With(IF r.method = "GET" THEN Answer(DoGET(v, r), v) ELSE DoPOST(v, r),
         LAMBDA a : [a EXCEPT !.resp = Respond(a.resp, r.hangup)])

Renamed(a) == a.resp.handler \in {"renameFunction", "renameData"} /\ a.view # view

\* the same handler started by a server that gives every connection a thread
\* of its own instead of running it inside the serving loop
HandleThreaded(r) ==
    /\ serving
    /\ \E a \in {Dispatch(view, r)} :
        /\ Renamed(a) => mutations < MaxMutations
        /\ req' = r
        /\ checked' = view
        /\ before' = view
        /\ resp' = a.resp
        /\ view' = a.view
        /\ mutations' = IF Renamed(a) THEN mutations + 1 ELSE mutations
        /\ UNCHANGED <<serving, host>>

\* MCPServer.start, lines 440-443: a plain HTTPServer run by serve_forever in
\* one thread, so a connection is accepted only between two requests
Handle(r) ==
    /\ serving /\ Idle
    /\ \E a \in {Dispatch(view, r)} :
        /\ Renamed(a) => mutations < MaxMutations
        /\ req' = r
        /\ checked' = view
        /\ before' = view
        /\ resp' = a.resp
        /\ view' = a.view
        /\ mutations' = IF Renamed(a) THEN mutations + 1 ELSE mutations
        /\ UNCHANGED <<serving, host>>

\* a GET handler on the server thread interleaved with stop_server on the host
\* thread: _check_binary_loaded (do_GET line 109) reads the handle, line 23 of
\* plugin/__init__.py clears it, and the operations the route calls read the
\* cleared handle; nothing orders the write with the handler's two reads
HandleAcrossStop(r) ==
    /\ serving /\ Idle
    /\ host = "idle"
    /\ r.method = "GET" /\ ~StartsWith(r.path, "/status")
    /\ CheckBinaryLoaded(view)
    /\ req' = r
    /\ checked' = view
    /\ before' = NoView
    /\ resp' = Respond(GetRoutes(NoView, r), r.hangup)
    /\ view' = NoView
    /\ host' = "stopping"
    /\ UNCHANGED <<serving, mutations>>

\* the handler returns and the serving loop waits for the next connection
Finish ==
    /\ ~Idle
    /\ req' = NoRequest
    /\ checked' = NoView
    /\ before' = NoView
    /\ resp' = Resp0
    /\ UNCHANGED <<view, serving, host, mutations>>

GetStatus ==
    \E path \in {"/status", "/statusx", "/status/info"} :
        Handle(GetRequest(path, EmptyDict, FALSE))

GetList ==
    \E path \in ListPaths, offset \in Offsets, limit \in Limits, fault \in BOOLEAN :
        /\ fault => path \in FalliblePaths
        /\ path \notin {"/functions", "/classes"}
              => /\ offset \in {None, StrVal("2"), StrVal("-1")}
                 /\ limit \in {None, StrVal("1"), StrVal("-2")}
        /\ Handle(GetRequest(path, Present([offset |-> offset, limit |-> limit]), fault))

\* requests whose client closes the connection before the answer is written
GetHangup ==
    \E path \in {"/status", "/functions", "/nosuch"}, hangup \in {"headers", "body"} :
        Handle([GetRequest(path, EmptyDict, FALSE) EXCEPT !.hangup = hangup])

\* requests in flight while the host stops the server
GetAcrossStop ==
    \E path \in {"/functions", "/classes", "/decompile"} :
        HandleAcrossStop(GetRequest(path, Present([name |-> StrVal("main")]), FALSE))

GetSearch ==
    \E query \in {None, StrVal(""), StrVal("S"), StrVal("f1"), StrVal("zz")},
       offset \in {None, StrVal("1"), StrVal("-1")},
       limit \in {None, StrVal("1"), StrVal("x")} :
        Handle(GetRequest("/searchFunctions",
                          Present([query |-> query, offset |-> offset, limit |-> limit]),
                          FALSE))

GetDecompile ==
    \E name \in {None, StrVal(""), StrVal("nosuch@0x10"), StrVal("main@zz")}
                    \cup {StrVal(s) : s \in IdStrings},
       functionName \in {None, StrVal("main")}, fault \in BOOLEAN :
        /\ fault => name \in {None, StrVal("main"), StrVal("nosuch")}
        /\ Handle(GetRequest("/decompile",
                             Present([name |-> name, functionName |-> functionName]),
                             fault))

GetUnknown ==
    \E path \in {"/", "/nosuch", "/load", "/renameFunction", "/comment"} :
        Handle(GetRequest(path, EmptyDict, FALSE))

\* json.dumps of a value and of a dict, the keys in sorted order
JsonValue(x) ==
    CASE x.t = "str" -> "\"" \o x.s \o "\""
      [] x.t = "int" -> Dec(x.n)
      [] x.t = "float" -> x.s
      [] OTHER -> "null"

RECURSIVE JsonMembers(_, _)
JsonMembers(d, keys) ==
    IF keys = <<>> THEN ""
    ELSE "\"" \o keys[1] \o "\": " \o JsonValue(d[keys[1]])
         \o (IF Len(keys) > 1 THEN ", " ELSE "")
         \o JsonMembers(d, SubSeq(keys, 2, Len(keys)))

\* the JSON object of a dict
JsonObject(d) ==
    JsonBody("{" \o JsonMembers(d, SortedStrings(DOMAIN d)) \o "}", Dict(d))

Post(path, ctype, body, fault) == PostRequest(path, LengthOf(body), ctype, body, fault)

PostLoad ==
    \E filepath \in {None, StrVal("/bin/small"), StrVal("/bin/big"), StrVal("/bin/missing")},
       fault \in BOOLEAN :
        Handle(Post("/load", FormType, FormBody(Present([filepath |-> filepath])), fault))

RenameOldNames ==
    {None, StrVal("main"), StrVal("0x10"), StrVal("16"), StrVal("_Sub"), StrVal("SUB"),
     StrVal("f11"), StrVal("nosuch")}

\* the route's two spellings, each with the parameter names that go with it
PostRenameFunction ==
    \E snake \in BOOLEAN, old \in RenameOldNames,
       new \in {None} \cup {StrVal(s) : s \in NewNames}, fault \in BOOLEAN :
        Handle(Post(IF snake THEN "/rename/function" ELSE "/renameFunction", FormType,
                    FormBody(Present(IF snake THEN [old_name |-> old, new_name |-> new]
                                     ELSE [oldName |-> old, newName |-> new])),
                    fault))

PostRenameFunctionJson ==
    \E old \in {IntVal(16), IntVal(0), IntVal(999), Float, StrVal("main")},
       new \in {StrVal("renamed"), IntVal(5)} :
        Handle(Post("/renameFunction", JsonType,
                    JsonObject([oldName |-> old, newName |-> new]), FALSE))

PostRenameData ==
    \E path \in {"/renameData", "/rename/data"},
       address \in {None, StrVal("0x40"), StrVal("64"), StrVal("40"), StrVal("zz"),
                    StrVal("0x1000")},
       new \in {None, StrVal("tab2")}, fault \in BOOLEAN :
        Handle(Post(path, FormType,
                    FormBody(Present([address |-> address, newName |-> new])), fault))

PostRenameDataJson ==
    \E address \in {IntVal(64), IntVal(0), Float}, new \in {StrVal("tab2"), IntVal(5)} :
        Handle(Post("/renameData", JsonType,
                    JsonObject([address |-> address, new_name |-> new]), FALSE))

DecompileNames ==
    IdStrings \cup {"main@0x10", "nosuch@0x10", "nosuch@16", "main@zz", "nosuch@zz",
                    "a@b@c", " main "}

PostDecompileText ==
    \E name \in DecompileNames, ctype \in {"text/plain", "", "application/octet-stream"},
       fault \in BOOLEAN :
        /\ fault => name = "main" /\ ctype = "text/plain"
        /\ Handle(Post("/decompile", ctype, TextBody(name), fault))

PostDecompileForm ==
    \E name \in {"main", "0x10", "16", "nosuch", "nosuch@0x10", ""},
       key \in {"name", "functionName", "function", "data", "other"}, fault \in BOOLEAN :
        Handle(Post("/decompile", FormType, FormBody(key :> StrVal(name)), fault))

PostDecompileJson ==
    \E body \in {JsonObject([name |-> IntVal(16)]), JsonObject([name |-> Float]),
                 JsonObject([name |-> StrVal("main")]), JsonObject(EmptyDict),
                 JsonBody("\"main\"", JsonStr("main")), JsonBody("[1]", JsonOther)},
       ctype \in {JsonType, "application/octet-stream"} :
        Handle(Post("/decompile", ctype, body, FALSE))

\* the requests of the tool-call bridge, bridge/binja_mcp_bridge.py lines
\* 51-196: requests.post with a dict sends it form-encoded
PostBridgeList ==
    \E path \in ListPaths \cup {"/searchFunctions"},
       offset \in {StrVal("0"), StrVal("2")}, limit \in {StrVal("100"), StrVal("1")} :
        Handle(Post(path, FormType,
                    FormBody(IF path = "/searchFunctions"
                             THEN [query |-> StrVal("S"), offset |-> offset, limit |-> limit]
                             ELSE [offset |-> offset, limit |-> limit]),
                    FALSE))

PostBridgeComment ==
    \E path \in {"/comment", "/comment/function"},
       comment \in {None, StrVal("note")}, delete \in BOOLEAN :
        Handle(Post(path, FormType,
                    FormBody(Present(
                        IF path = "/comment"
                        THEN [address |-> StrVal("0x40"), comment |-> comment,
                              _method |-> IF delete THEN StrVal("DELETE") ELSE None]
                        ELSE [name |-> StrVal("main"), comment |-> comment,
                              _method |-> IF delete THEN StrVal("DELETE") ELSE None])),
                    FALSE))

PostUnknown ==
    \E path \in {"/status", "/nosuch", "/"}, body \in {NoBody, TextBody("main")} :
        Handle(Post(path, "text/plain", body, FALSE))

\* requests the decoder cannot read: a Content-Length that is no number, a
\* body that is no UTF-8, JSON that is no object, JSON that does not parse
PostMalformed ==
    \E path \in {"/load", "/renameFunction", "/renameData", "/decompile", "/nosuch",
                 "/functions"},
       kind \in {"length", "bytes", "list", "syntax"} :
        Handle(CASE kind = "length" ->
                      PostRequest(path, StrVal("abc"), FormType,
                                  FormBody("name" :> StrVal("main")), FALSE)
                 [] kind = "bytes" -> Post(path, FormType, BinaryBody, FALSE)
                 [] kind = "list" -> Post(path, JsonType, JsonBody("[1]", JsonOther), FALSE)
                 [] OTHER ->
                      Post(path, JsonType,
                           Body("{name", TRUE, FALSE, JsonOther, EmptyDict), FALSE))

\* a POST without a body, its Content-Length 0 or absent, under every kind
\* of content type
PostEmpty ==
    \E path \in {"/load", "/decompile", "/renameFunction"},
       ctype \in {JsonType, FormType, "text/plain", "", "application/octet-stream"},
       clen \in {StrVal("0"), None} :
        /\ path = "/renameFunction" => ctype = JsonType
        /\ Handle(PostRequest(path, clen, ctype, NoBody, FALSE))

Next ==
    \/ GetAcrossStop
    \/ GetHangup
    \/ StartServer
    \/ StopServerClear
    \/ StopServerShutdown
    \/ Finish
    \/ GetStatus
    \/ GetList
    \/ GetSearch
    \/ GetDecompile
    \/ GetUnknown
    \/ PostLoad
    \/ PostRenameFunction
    \/ PostRenameFunctionJson
    \/ PostRenameData
    \/ PostRenameDataJson
    \/ PostDecompileText
    \/ PostDecompileForm
    \/ PostDecompileJson
    \/ PostBridgeList
    \/ PostBridgeComment
    \/ PostUnknown
    \/ PostMalformed
    \/ PostEmpty

Spec == Init /\ [][Next]_vars

----------------------------------------------------------------------------
(* The comment operations called in the host's process: no route of the    *)
(* request handler reaches them.                                           *)

CallRequest(op, args, fault) ==
    [NoRequest EXCEPT !.method = "CALL", !.path = op, !.query = args, !.fault = fault]

\* what the caller sees: the bool or the comment returned, or the message
\* of the exception raised
CallResult(op, got) ==
    IF got.exc # NoExc THEN [Resp0 EXCEPT !.error = got.exc.msg]
    ELSE IF op \in {"get_comment", "get_function_comment"}
    THEN [Resp0 EXCEPT !.text = got.ret]
    ELSE [Resp0 EXCEPT !.success = got.ret]

Call(op, args, fault, got) ==
    /\ host = "idle" /\ Idle
    /\ req' = CallRequest(op, args, fault)
    /\ checked' = view
    /\ before' = view
    /\ resp' = By(CallResult(op, got), op, {op})
    /\ view' = got.view
    /\ UNCHANGED <<serving, host, mutations>>

CommentAddresses == {16, 64, 4096}
CommentTexts == {StrVal("note"), StrVal("")}
CommentFunctions == {StrVal("main"), StrVal("0x10"), IntVal(10), StrVal("nosuch")}

CallSetComment ==
    \E address \in CommentAddresses, comment \in CommentTexts, fault \in BOOLEAN :
        Call("set_comment", [address |-> IntVal(address), comment |-> comment], fault,
             SetComment(view, address, comment, fault))

CallGetComment ==
    \E address \in CommentAddresses :
        Call("get_comment", [address |-> IntVal(address)], FALSE,
             GetComment(view, address, FALSE))

CallDeleteComment ==
    \E address \in CommentAddresses, fault \in BOOLEAN :
        Call("delete_comment", [address |-> IntVal(address)], fault,
             DeleteComment(view, address, fault))

CallSetFunctionComment ==
    \E name \in CommentFunctions, comment \in CommentTexts :
        Call("set_function_comment", [name |-> name, comment |-> comment], FALSE,
             SetFunctionComment(view, name, comment, FALSE))

CallGetFunctionComment ==
    \E name \in CommentFunctions :
        Call("get_function_comment", [name |-> name], FALSE,
             GetFunctionComment(view, name, FALSE))

CallDeleteFunctionComment ==
    \E name \in CommentFunctions, fault \in BOOLEAN :
        Call("delete_function_comment", [name |-> name], fault,
             DeleteFunctionComment(view, name, fault))

CommentNext ==
    \/ StartServer
    \/ Finish
    \/ CallSetComment
    \/ CallGetComment
    \/ CallDeleteComment
    \/ CallSetFunctionComment
    \/ CallGetFunctionComment
    \/ CallDeleteFunctionComment

CommentSpec == Init /\ [][CommentNext]_vars

----------------------------------------------------------------------------
(* The claims.  A state after Handle holds the request in req, the handle  *)
(* it met in before, the answer in resp and the handle it left in view.    *)

\* C1 (as stated): with no Program Handle, every GET or POST request whose
\* path is not /status is answered 400 {"error": "No binary loaded"} and no
\* route handler or Facade operation runs.  do_GET exempts every path that
\* begins with "/status", so GET /statusx reaches the route chain.
C1_NoHandleEveryOtherPath400 ==
    (req.method \in {"GET", "POST"} /\ ~before.present /\ req.path # "/status")
        => /\ resp.status = 400
           /\ resp.error = "No binary loaded"
           /\ resp.handler = ""
           /\ resp.calls = {}

\* C2 (as stated): a /status request is always answered 200 with loaded and
\* filename describing the handle, and never with "No binary loaded".  do_POST
\* checks the handle for every path and has no /status route.
C2_StatusAlways200 ==
    (req.method \in {"GET", "POST"} /\ req.path = "/status")
        => /\ resp.status = 200
           /\ resp.loaded = before.present
           /\ resp.filename = (IF before.present THEN StrVal(before.filename) ELSE None)
           /\ resp.error # "No binary loaded"

\* C3 (as stated): with a Program Handle present, a request whose (method,
\* path) matches no route is answered 404 {"error": "Not found"} and the
\* Facade is not mutated.
C3_UnmatchedIs404 ==
    (/\ before.present
     /\ \/ req.method = "GET" /\ req.path \in {"/", "/nosuch", "/load", "/statusx"}
        \/ req.method = "POST" /\ req.path \in {"/", "/nosuch", "/status"})
        => resp.status = 404 /\ resp.error = "Not found" /\ view = before

\* C3 (amended): with a Program Handle present, a request whose body the
\* decoder reads without raising runs the one handler its (method, path)
\* names, and when no route matches it is answered 404 {"error": "Not
\* found"} with no handler run and the Facade untouched; a POST whose body
\* the decoder cannot read is answered 500 before any route is tried.
C3_DispatchAfterDecoding ==
    (req.method \in {"GET", "POST"} /\ before.present)
        => IF req.method = "POST" /\ ParsePostParams(req).exc # NoExc
           THEN resp.status = 500 /\ resp.handler = "" /\ resp.calls = {} /\ view = before
           ELSE /\ resp.handler =
                     CASE req.method = "GET" /\ req.path = "/status" -> "status"
                       [] req.method = "GET" /\ req.path \in {"/functions", "/methods"} ->
                            "functions"
                       [] req.method = "GET" /\ req.path = "/classes" -> "classes"
                       [] req.method = "GET" /\ req.path = "/segments" -> "segments"
                       [] req.method = "GET" /\ req.path = "/imports" -> "imports"
                       [] req.method = "GET" /\ req.path = "/exports" -> "exports"
                       [] req.method = "GET" /\ req.path = "/namespaces" -> "namespaces"
                       [] req.method = "GET" /\ req.path = "/data" -> "data"
                       [] req.method = "GET" /\ req.path = "/searchFunctions" ->
                            "searchFunctions"
                       [] req.path = "/decompile" -> "decompile"
                       [] req.method = "POST" /\ req.path = "/load" -> "load"
                       [] req.method = "POST"
                          /\ req.path \in {"/renameFunction", "/rename/function"} ->
                            "renameFunction"
                       [] req.method = "POST"
                          /\ req.path \in {"/renameData", "/rename/data"} -> "renameData"
                       [] OTHER -> ""
                /\ resp.handler = ""
                     => /\ resp.status = 404
                        /\ resp.error = "Not found"
                        /\ resp.calls = {}
                        /\ view = before

\* C3 witness: a POST to a path no route matches, its body decoded, met a
\* handle and was answered 404 "Not found"
C3_Witness ==
    /\ req.method = "POST" /\ req.path = "/nosuch" /\ before.present
    /\ req.body.raw = "main"
    /\ resp.status = 404 /\ resp.error = "Not found" /\ view = before

\* C4 (as stated): with a binary loaded every (method, path) of the REST
\* surface reaches a handler and is never answered 404 "Not found", POST on
\* the list paths, /searchFunctions, /comment and /comment/function included.
\* do_POST routes only /load, the rename paths and /decompile.
C4_SurfaceReachesHandler ==
    (/\ before.present
     /\ \/ /\ req.method = "GET"
           /\ req.path \in ListPaths \cup {"/status", "/searchFunctions", "/decompile"}
        \/ /\ req.method = "POST"
           /\ ParsePostParams(req).exc = NoExc
           /\ req.path \in ListPaths \cup
                  {"/searchFunctions", "/decompile", "/renameFunction", "/rename/function",
                   "/renameData", "/rename/data", "/comment", "/comment/function", "/load"})
        => resp.handler # "" /\ ~(resp.status = 404 /\ resp.error = "Not found")

\* C5 (as stated): an exception raised by the decoder or by a Facade call
\* while a request is handled is answered 500 with the exception's message.
\* get_class_names, rename_function, rename_data and decompile_function catch
\* the Facade's exception themselves and return [], False or None.
C5_EveryExceptionAnswered500 ==
    /\ (req.method = "POST" /\ before.present /\ ParsePostParams(req).exc # NoExc)
          => resp.status = 500 /\ resp.error = ParsePostParams(req).exc.msg
    /\ (/\ req.fault
        /\ resp.calls \cap {"get_class_names", "get_defined_data", "load_binary",
                            "rename_function", "rename_data", "decompile_function"} # {})
          => resp.status = 500 /\ Contains(resp.error, FacadeError.msg)

\* C6: for every address a at which the program has a function, resolving
\* "0x" + hex(a), the decimal string of a and the int a each return the
\* function at a, whatever the functions are named (every handle the server
\* holds between two requests, renamed functions included).
C6_EquivalentEncodings ==
    (Idle /\ view.present)
        => \A i \in 1..Len(view.functions) :
             \A id \in {StrVal(Hex(view.functions[i].start)),
                        StrVal(Dec(view.functions[i].start)),
                        IntVal(view.functions[i].start)} :
                /\ GetFunctionByNameOrAddress(view, id).exc = NoExc
                /\ GetFunctionByNameOrAddress(view, id).func # 0
                /\ view.functions[GetFunctionByNameOrAddress(view, id).func].start
                     = view.functions[i].start

\* C6 witness: GET /decompile?name=16 was answered with the function at
\* address 16 although another function is named "16"
C6_Witness ==
    /\ req.method = "GET" /\ req.path = "/decompile"
    /\ Get(req.query, "name") = StrVal("16")
    /\ \E i \in 1..Len(before.functions) :
          before.functions[i].name = "16" /\ before.functions[i].start # 16
    /\ resp.status = 200 /\ resp.function.address = "0x10"

\* C7: for a loaded program and any str or int identifier the resolver
\* returns a function or None and raises nothing, also when every step fails
\* (every handle the server holds between two requests).
C7_ResolverTotal ==
    (Idle /\ view.present)
        => \A id \in {StrVal(s) : s \in IdStrings \cup DecompileNames}
                     \cup {IntVal(n) : n \in {0 - 1, 0, 16, 17, 999}} :
             GetFunctionByNameOrAddress(view, id).exc = NoExc

\* C7 witness: a decompile request whose identifier fails the address step
\* with ValueError and every later step too was answered "Function not found"
C7_Witness ==
    /\ req.method = "GET" /\ req.path = "/decompile"
    /\ resp.identifier = StrVal("0xzz")
    /\ GetFunctionByNameOrAddress(before, resp.identifier) = Found(0, "")
    /\ resp.status = 404 /\ resp.error = "Function not found"

\* C8: for non-negative offset and limit every paginated list operation
\* answers 200 with exactly S[offset : offset + limit] of its result sequence
\* S, in S's order, and with the empty list when offset >= len(S).
C8_PageIsSlice ==
    (/\ req.method = "GET" /\ before.present /\ ~req.fault
     /\ req.path \in ListPaths \cup {"/searchFunctions"}
     /\ resp.window[1] >= 0 /\ resp.window[2] >= 0)
        => \E S \in {CASE req.path \in {"/functions", "/methods"} -> FunctionList(before)
                       [] req.path = "/classes" -> ClassList(before)
                       [] req.path = "/segments" -> SegmentList(before)
                       [] req.path = "/imports" -> ImportList(before)
                       [] req.path = "/exports" -> ExportList(before)
                       [] req.path = "/namespaces" -> NamespaceList(before)
                       [] req.path = "/data" -> DataList(before)
                       [] OTHER ->
                            IF Truthy(Get(req.query, "query"))
                            THEN MatchList(before, Get(req.query, "query").s)
                            ELSE <<>>} :
             /\ resp.status = 200
             /\ Len(resp.list) = Max(0, Min(resp.window[2], Len(S) - resp.window[1]))
             /\ \A i \in 1..Len(resp.list) : resp.list[i] = S[resp.window[1] + i]

\* C8 witness: GET /functions?offset=2&limit=3 answered with the third to
\* fifth function of the enumeration
C8_Witness ==
    /\ req.method = "GET" /\ req.path = "/functions" /\ before.present
    /\ resp.window = <<2, 3>>
    /\ Len(before.functions) > 5
    /\ resp.list = SubSeq(FunctionList(before), 3, 5)

\* C9 (as stated): an offset or limit that is absent, non-numeric or negative
\* is replaced by its default, so no negative offset or limit reaches a list
\* operation.  parse_int_or_default returns int(val) whatever its sign.
C9_WindowNormalized ==
    (/\ req.method = "GET" /\ before.present
     /\ req.path \in ListPaths \cup {"/searchFunctions"})
        => /\ resp.window[1] >= 0
           /\ resp.window[2] >= 0
           /\ Get(req.query, "offset") \in {None, StrVal("abc"), StrVal("-1")}
                => resp.window[1] = 0
           /\ Get(req.query, "limit") \in {None, StrVal("x"), StrVal("-2")}
                => resp.window[2] = 100

\* C10: when rename function or decompile finds no function for its
\* identifier, the answer is 404, names the identifier, and carries the first
\* min(10, n) functions of the program's enumeration as available functions.
C10_NotFoundEnvelope ==
    (/\ req.method \in {"GET", "POST"}
     /\ "get_function_info" \in resp.calls
     /\ GetFunctionByNameOrAddress(before, resp.identifier).exc = NoExc
     /\ GetFunctionByNameOrAddress(before, resp.identifier).func = 0)
        => /\ resp.status = 404
           /\ resp.error = "Function not found"
           /\ resp.requestedKey \in {"requested", "requested_name"}
           /\ resp.requested = resp.identifier
           /\ resp.hasAvailable
           /\ Len(resp.available) <= 10
           /\ Len(resp.available) = Min(10, Len(before.functions))
           /\ \A i \in 1..Len(resp.available) :
                 resp.available[i] = FunctionList(before)[i]
           /\ view = before

\* C10 witness: renaming a function that does not exist in a program of more
\* than ten functions was answered 404 with ten available functions
C10_Witness ==
    /\ req.method = "POST" /\ resp.handler = "renameFunction"
    /\ resp.identifier = StrVal("nosuch")
    /\ Len(before.functions) > 10
    /\ resp.status = 404 /\ Len(resp.available) = 10

\* the function name a /decompile request carries: the query's name or
\* functionName, or what the POST route takes from the decoded body
C11_FunctionName ==
    IF req.method = "GET"
    THEN Or(Get(req.query, "name"), Get(req.query, "functionName"))
    ELSE With(ParsePostParams(req).params, LAMBDA params :
              CASE params.kind = "dict" ->
                     Or(Get(params.d, "functionName"),
                        Or(Get(params.d, "name"),
                           Or(Get(params.d, "function"), Get(params.d, "data"))))
                [] params.kind = "str" -> StrVal(Strip(params.s))
                [] OTHER -> None)

\* C11 (as stated): a /decompile identifier that contains "@", sent by GET or
\* POST, is split at its first "@"; the function is resolved by the address
\* after it when that parses as 0x-hex or decimal, else by the name before it.
\* do_GET hands the identifier to _handle_decompile unsplit, and do_POST
\* unpacks split("@") into two names, which raises when there are two "@".
C11_SplitAtFirstAt ==
    (/\ req.method \in {"GET", "POST"} /\ req.path = "/decompile" /\ before.present
     /\ req.method = "POST" => ParsePostParams(req).exc = NoExc
     /\ C11_FunctionName.t = "str" /\ Contains(C11_FunctionName.s, "@"))
        => /\ "get_function_info" \in resp.calls
           /\ resp.identifier =
                SplitParts(C11_FunctionName.s, IndexOf(C11_FunctionName.s, "@")).id

\* C12 (as stated): when the identifier of a /decompile request resolves to a
\* function and the Facade has no decompilation for it (it raises, or the
\* function's hlil is None), the answer is the 500 "Decompilation failed"
\* envelope with the function descriptor, never a payload under "decompiled".
\* decompile_function returns str(func.hlil), which is "None" for None.
C12_NullDecompilationFails ==
    (/\ req.method \in {"GET", "POST"} /\ req.path = "/decompile"
     /\ "decompile_function" \in resp.calls
     /\ GetFunctionByNameOrAddress(before, resp.identifier).exc = NoExc
     /\ GetFunctionByNameOrAddress(before, resp.identifier).func # 0
     /\ \/ req.fault
        \/ before.functions[GetFunctionByNameOrAddress(before, resp.identifier).func].start
              \in before.unlifted)
        => /\ resp.status = 500
           /\ resp.error = "Decompilation failed"
           /\ resp.function = GetFunctionInfo(before, resp.identifier).info
           /\ resp.key # "decompiled"

\* C13 (as stated): deleting the comment at an address of the program, or of
\* a function of the program, reports success; afterwards get reports None
\* for it, and deleting again reports success and changes nothing.
\* delete_function_comment clears Function.comment, while set_function_comment
\* and get_function_comment use the address comment at the function's start.
C13_DeleteIdempotent ==
    /\ (/\ req.method = "CALL" /\ req.path = "delete_comment"
        /\ before.present /\ ~req.fault
        /\ IsValidOffset(before, req.query.address.n))
          => /\ resp.success
             /\ GetComment(view, req.query.address.n, FALSE).ret = None
             /\ DeleteComment(view, req.query.address.n, FALSE) = Returned(TRUE, view)
    /\ (/\ req.method = "CALL" /\ req.path = "delete_function_comment"
        /\ before.present /\ ~req.fault
        /\ GetFunctionByNameOrAddress(before, req.query.name).func # 0)
          => /\ resp.success
             /\ GetFunctionComment(view, req.query.name, FALSE).ret = None
             /\ DeleteFunctionComment(view, req.query.name, FALSE) = Returned(TRUE, view)

\* the address and the new name a rename-data request carries
C14_Address == Get(ParsePostParams(req).params.d, "address")
C14_NewName ==
    Or(Get(ParsePostParams(req).params.d, "newName"),
       Get(ParsePostParams(req).params.d, "new_name"))

\* the integer an address parameter stands for: a "0x" string in base 16,
\* any other string in base 10, an int as it is
C14_Normalized ==
    IF C14_Address.t = "int" THEN [ok |-> TRUE, n |-> C14_Address.n]
    ELSE PyInt(C14_Address.s, IF StartsWith(C14_Address.s, "0x") THEN 16 ELSE 10)

\* C14 (as stated): POST /renameData and /rename/data hand rename_data the
\* integer a whether the address is sent as "0x" + hex(a), as the decimal
\* string of a or as the int a.  The route parses every string with
\* int(address, 16), so the decimal string "64" becomes 100.
C14_AddressNormalized ==
    (/\ req.method = "POST" /\ req.path \in {"/renameData", "/rename/data"}
     /\ before.present /\ ~req.fault
     /\ ParsePostParams(req).exc = NoExc /\ ParsePostParams(req).params.kind = "dict"
     /\ C14_Address.t \in {"str", "int"} /\ Truthy(C14_Address)
     /\ C14_NewName.t = "str" /\ Truthy(C14_NewName)
     /\ C14_Normalized.ok)
        => /\ "rename_data" \in resp.calls
           /\ resp.status = 200
           /\ resp.success = RenameData(before, C14_Normalized.n, C14_NewName, FALSE).ret
           /\ view = RenameData(before, C14_Normalized.n, C14_NewName, FALSE).view

\* C15: a POST whose body has no length (Content-Length 0 or absent) decodes
\* to the empty mapping under every content type, and that mapping is what
\* the routes see: they answer 400 for the missing parameters and echo {}.
C15_EmptyBodyEmptyMapping ==
    (/\ req.method = "POST" /\ before.present
     /\ req.clen \in {None, StrVal("0")})
        => /\ ParsePostParams(req) = Decoded(Dict(EmptyDict))
           /\ req.path \in {"/renameFunction", "/rename/function", "/decompile"}
                => resp.status = 400 /\ resp.received = Dict(EmptyDict)
           /\ req.path = "/load"
                => resp.status = 400 /\ resp.error = "Missing filepath parameter"

\* C15 witness: a POST /decompile declared application/json with
\* Content-Length 0 was answered 400 with the empty mapping echoed
C15_Witness ==
    /\ req.method = "POST" /\ req.path = "/decompile" /\ before.present
    /\ req.ctype = JsonType /\ req.clen = StrVal("0")
    /\ resp.status = 400 /\ resp.received = Dict(EmptyDict)

\* C16 (as stated): a POST declared application/json whose body is not empty
\* and is no JSON is decoded without an exception to an error-marked value,
\* and every POST route answers 400 with an envelope that reports "Invalid
\* JSON format" (as its error, or in the parameters it echoes).  /load and
\* the rename-data route answer 400 for the parameter they miss and echo
\* nothing.
C16_InvalidJsonReported ==
    (/\ req.method = "POST" /\ before.present
     /\ req.path \in {"/load", "/renameFunction", "/rename/function", "/renameData",
                      "/rename/data", "/decompile"}
     /\ Contains(Lower(req.ctype), "application/json")
     /\ req.clen.t = "str" /\ PyInt(req.clen.s, 10).ok /\ PyInt(req.clen.s, 10).n > 0
     /\ req.body.utf8 /\ ~req.body.jsonOk)
        => /\ ParsePostParams(req) = Decoded(Dict("error" :> StrVal("Invalid JSON format")))
           /\ resp.status = 400
           /\ \/ resp.error = "Invalid JSON format"
              \/ Get(resp.received.d, "error") = StrVal("Invalid JSON format")

\* C17 (as stated): under an unrecognized content type a body that is not
\* empty decodes to the first of its JSON, form and raw-text readings that is
\* a non-empty mapping, so the result is always a non-empty mapping.  The
\* fallback returns whatever json.loads gives: a list, a number, a string or {}.
C17_FallbackNonEmptyMapping ==
    (/\ req.method = "POST" /\ before.present
     /\ req.ctype # ""
     /\ ~Contains(Lower(req.ctype), "application/json")
     /\ ~Contains(Lower(req.ctype), "application/x-www-form-urlencoded")
     /\ ~Contains(Lower(req.ctype), "text/plain")
     /\ req.clen.t = "str" /\ PyInt(req.clen.s, 10).ok /\ PyInt(req.clen.s, 10).n > 0
     /\ req.body.utf8)
        => /\ ParsePostParams(req).exc = NoExc
           /\ ParsePostParams(req).params.kind = "dict"
           /\ DOMAIN ParsePostParams(req).params.d # {}
           /\ ParsePostParams(req).params =
                IF /\ req.body.jsonOk /\ req.body.json.kind = "dict"
                   /\ DOMAIN req.body.json.d # {}
                THEN req.body.json
                ELSE IF DOMAIN req.body.form # {} THEN Dict(req.body.form)
                ELSE RawText(req.body)

C20_AtAddress(v, s) ==
    {i \in 1..Len(v.functions) :
        /\ ParseAddress(StrVal(s)).k = "addr"
        /\ v.functions[i].start = ParseAddress(StrVal(s)).n}

C20_Exact(v, s) == {i \in 1..Len(v.functions) : v.functions[i].name = s}

C20_UpToCase(v, s) ==
    {i \in 1..Len(v.functions) : Lower(v.functions[i].name) = Lower(s)}

C20_BySymbol(v, s) ==
    {i \in 1..Len(v.functions) :
        \E k \in 1..Len(v.symbols) :
            /\ v.symbols[k].raw = s
            /\ \A j \in 1..(k - 1) : v.symbols[j].raw # s
            /\ v.symbols[k].address # 0
            /\ v.functions[i].start = v.symbols[k].address}

C20_First(S) == IF S = {} THEN 0 ELSE CHOOSE i \in S : \A j \in S : i <= j

C20_ResolverOrder ==
    (Idle /\ view.present)
        => \A s \in IdStrings :
             GetFunctionByNameOrAddress(view, StrVal(s)).func =
                IF C20_AtAddress(view, s) # {} THEN C20_First(C20_AtAddress(view, s))
                ELSE IF C20_Exact(view, s) # {} THEN C20_First(C20_Exact(view, s))
                ELSE IF C20_UpToCase(view, s) # {}
                     THEN C20_First(C20_UpToCase(view, s))
                ELSE C20_First(C20_BySymbol(view, s))

\* C20 witness: GET /decompile?name=sub was answered with the function named
\* "sub" although an earlier function, "Sub", matches up to case
C20_Witness ==
    /\ req.method = "GET" /\ req.path = "/decompile"
    /\ Get(req.query, "name") = StrVal("sub")
    /\ \E i, j \in 1..Len(before.functions) :
          /\ i < j
          /\ before.functions[i].name = "Sub"
          /\ before.functions[j].name = "sub"
          /\ resp.function.address = Hex(before.functions[j].start)
    /\ resp.status = 200

\* C21: a numeric-parse failure in the address step is not fatal.  For every
\* handle the server holds between two requests and every string identifier
\* on which int() raises ValueError ("0x" followed by something that is not
\* hexadecimal, or a string that is not a number), the resolver raises
\* nothing and returns what the exact-name, case-insensitive-name and symbol
\* steps find, in that order.
C21_ParseFailureFallsThrough ==
    (Idle /\ view.present)
        => \A s \in IdStrings :
             ParseAddress(StrVal(s)).k = "ValueError"
                => /\ GetFunctionByNameOrAddress(view, StrVal(s)).exc = NoExc
                   /\ GetFunctionByNameOrAddress(view, StrVal(s)).func =
                        IF C20_Exact(view, s) # {} THEN C20_First(C20_Exact(view, s))
                        ELSE IF C20_UpToCase(view, s) # {}
                             THEN C20_First(C20_UpToCase(view, s))
                        ELSE C20_First(C20_BySymbol(view, s))

\* C21 witness: GET /decompile?name=MAIN, on which int() raises ValueError,
\* was answered with the function the case-insensitive step finds
C21_Witness ==
    /\ req.method = "GET" /\ req.path = "/decompile"
    /\ Get(req.query, "name") = StrVal("MAIN")
    /\ ParseAddress(StrVal("MAIN")).k = "ValueError"
    /\ \E i \in 1..Len(before.functions) :
          /\ before.functions[i].name = "main"
          /\ resp.function.address = Hex(before.functions[i].start)
    /\ resp.status = 200

\* C22 (as stated): a string identifier that neither begins with "0x" nor
\* consists of decimal digits only is never converted to an address: on every
\* handle the server holds between two requests the resolver answers it with
\* what the name and symbol steps find.  The resolver hands every other string
\* to int(), which accepts surrounding whitespace, a sign and underscores.
C22_OnlyDigitsAreAddresses ==
    (Idle /\ view.present)
        => \A s \in IdStrings :
             (~StartsWith(s, "0x") /\ ~IsDigitStr(s))
                => /\ ParseAddress(StrVal(s)).k # "addr"
                   /\ GetFunctionByNameOrAddress(view, StrVal(s)).func =
                        IF C20_Exact(view, s) # {} THEN C20_First(C20_Exact(view, s))
                        ELSE IF C20_UpToCase(view, s) # {}
                             THEN C20_First(C20_UpToCase(view, s))
                        ELSE C20_First(C20_BySymbol(view, s))

\* C23 (as stated): when the address step and both name steps fail and the
\* symbol table maps the identifier's raw name to an address at which a
\* function starts, the resolver returns that function, whatever the address.
\* The symbol step tests the address for truth, so address 0 counts as none.
C23_SymbolStepAnyAddress ==
    (Idle /\ view.present)
        => \A s \in IdStrings :
             \A i \in 1..Len(view.functions) :
                (/\ C20_AtAddress(view, s) = {}
                 /\ C20_Exact(view, s) = {}
                 /\ C20_UpToCase(view, s) = {}
                 /\ GetSymbolByRawName(view, s) # 0
                 /\ view.symbols[GetSymbolByRawName(view, s)].address
                        = view.functions[i].start)
                    => /\ GetFunctionByNameOrAddress(view, StrVal(s)).func # 0
                       /\ view.functions[GetFunctionByNameOrAddress(view, StrVal(s)).func].start
                            = view.functions[i].start

\* C24 (as stated): a GET request that has passed the binary-loaded check
\* runs its operations against a present Program Handle and is not answered
\* 500 for an absent one, whatever the host thread does meanwhile.
\* stop_server clears the handle without any ordering with the handler.
C24_CheckedHandleStaysPresent ==
    (/\ req.method = "GET" /\ ~StartsWith(req.path, "/status")
     /\ CheckBinaryLoaded(checked))
        => /\ before.present
           /\ ~(resp.status = 500 /\ resp.error = NoBinaryLoaded.msg)

\* C25 (as stated): no HTTP request changes whether a Program Handle is
\* present: the handle a request's operations found present is present when
\* the handler returns, and a /load answered success = true leaves a handle
\* present.  load_binary assigns whatever the Facade returns, None included.
C25_RequestsKeepHandle ==
    (req.method \in {"GET", "POST"} /\ before.present)
        => /\ view.present
           /\ (req.path = "/load" /\ resp.status = 200 /\ resp.success = TRUE)
                => view.present

\* C26 (as stated): rename round trip.  After a rename request answered with
\* success, resolving the function's new name returns the very function the
\* old identifier resolved to (the one whose descriptor the answer carries),
\* whatever the new name.  A new name that reads as an address, or that
\* another function earlier in the enumeration bears, resolves elsewhere.
C26_RenameRoundTrip ==
    (/\ req.method = "POST" /\ resp.handler = "renameFunction"
     /\ resp.status = 200 /\ resp.success = TRUE)
        => \A i \in 1..Len(view.functions) :
             Hex(view.functions[i].start) = resp.function.address
                => /\ view.functions[i].name # before.functions[i].name
                   /\ GetFunctionByNameOrAddress(view, StrVal(view.functions[i].name)).func
                        = i

\* C27 (as stated): function comments are one store across set, get and
\* delete.  After set_function_comment(f, c) with non-empty c returned True,
\* get_function_comment(f) returns c; and after delete_function_comment(f)
\* returned True on a function whose comment get_function_comment reported,
\* get_function_comment(f) returns None.  Set and get use the view's address
\* comment at the function's start, delete assigns Function.comment.
C27_FunctionCommentStore ==
    /\ (/\ req.method = "CALL" /\ req.path = "set_function_comment"
        /\ Truthy(req.query.comment) /\ resp.success = TRUE)
          => GetFunctionComment(view, req.query.name, FALSE).ret = req.query.comment
    /\ (/\ req.method = "CALL" /\ req.path = "delete_function_comment"
        /\ resp.success = TRUE
        /\ GetFunctionComment(before, req.query.name, FALSE).ret # None)
          => GetFunctionComment(view, req.query.name, FALSE).ret = None

\* C28 (as stated): every handled request produces exactly one response: one
\* status line and one JSON envelope are written, never zero and never two,
\* also when writing the response raises after it has begun.  No except
\* clause can complete a response whose write failed.
C28_ExactlyOneResponse ==
    req.method \in {"GET", "POST"}
        => resp.lines = 1 /\ resp.envelopes = 1

====
